---- MODULE Spec2Model ----
(***************************************************************************)
(* Lumier dev server: the resource registry, the binding resolver and the  *)
(* Miniflare orchestrator of packages/lumier/src/cli/commands/dev.ts.      *)
(*                                                                         *)
(* The process is single-threaded and event-driven: every action below is  *)
(* one run of JavaScript between two awaits (or one event delivered to a   *)
(* handler), so the interleavings TLC explores are exactly the orders in   *)
(* which the event loop may resume the pending continuations.              *)
(***************************************************************************)
EXTENDS Integers, Sequences, FiniteSets, TLC

(***************************************************************************)
(* Bounds of the model.                                                    *)
(***************************************************************************)
\* How many times the user saves a file (lumier.config.ts or a worker's
\* entry file) during one dev session.
MaxEdits == 2

\* How many times a file is written while the source watcher is observed
\* in time.
MaxSaves == 3

\* How many times loadConfig is called in one process.
MaxLoads == 2

\* How many workers the build step is observed to check.
MaxBuilds == 1

\* How many times the emulator configurations are built from a registry.
MaxStarts == 1

\* How many times the deploy command is run.
MaxDeploys == 1

\* How many times the port allocation is run
MaxAllocations == 1

(***************************************************************************)
(* Program constants.                                                      *)
(***************************************************************************)
DEFAULT_DEV_PORT == 8787

\* The app() metadata and the --stage of the session.
AppName == "app"
Stage == "dev"

NoWorker == "<none>"
NoPort == 0
NoArr == 0

(***************************************************************************)
(* Binding values of a worker's binding map.  A JavaScript value is        *)
(* either a string (js = "string") or an object (js = "object") with an    *)
(* optional type tag and an optional _ref payload.                         *)
(***************************************************************************)
Str(v) ==
  [js |-> "string", type |-> "", hasRef |-> FALSE, name |-> "", scriptName |-> "",
   service |-> "", value |-> v]

\* { type: "service", service: s }: a manually typed service binding
ManualService(s) ==
  [js |-> "object", type |-> "service", hasRef |-> FALSE, name |-> "", scriptName |-> "",
   service |-> s, value |-> ""]

\* { type: "plain_text" | "secret_text", value: v }
ManualText(t, v) ==
  [js |-> "object", type |-> t, hasRef |-> FALSE, name |-> "", scriptName |-> "",
   service |-> "", value |-> v]

\* Worker(name, options): the reference handed back to the configuration.
\* registry.app.stage is set by loadConfig before run(ctx) is called.
\* A script name that leaves the stage out
ScriptName_NoStage(appName, stage, name) == appName \o "-" \o name

ScriptName(appName, stage, name) ==
  IF stage # "" THEN appName \o "-" \o stage \o "-" \o name
                ELSE appName \o "-" \o name

WorkerOutput(name) ==
  [js |-> "object", type |-> "worker", hasRef |-> TRUE, name |-> name,
   scriptName |-> ScriptName(AppName, Stage, name), service |-> "", value |-> ""]

\* KV(name): namespaceId is "kv-<name>"
KVOutput(name) ==
  [js |-> "object", type |-> "kv", hasRef |-> TRUE, name |-> name, scriptName |-> "",
   service |-> "", value |-> "kv-" \o name]

\* Any other reference { type, name, ..., _ref }.  value is the part of the
\* reference the resolver or a property reads besides type and name: the
\* className of a durable object, _ref.localConnectionString of a
\* Hyperdrive ("" when undefined), the namespaceId of a KV.
Linkable(type, name, value) ==
  [js |-> "object", type |-> type, hasRef |-> TRUE, name |-> name, scriptName |-> "",
   service |-> "", value |-> value]

\* A value that is neither a string nor an object with a type: a number,
\* null, an object without a type
Untyped(js) ==
  [js |-> js, type |-> "", hasRef |-> FALSE, name |-> "", scriptName |-> "",
   service |-> "", value |-> ""]

NoBindings == [k \in {} |-> Str("")]

(***************************************************************************)
(* Binding resolver.                                                       *)
(***************************************************************************)
\* A type guard that looks at the type tag only
isLinkableResource_TypeOnly(v) == v.js = "object" /\ v.type # ""

isLinkableResource(v) == v.js = "object" /\ v.type # "" /\ v.hasRef

\* the else-if after isLinkableResource: an object with a type
IsManual(v) == ~isLinkableResource(v) /\ v.js = "object" /\ v.type # ""

Pick(b, P(_)) == {k \in DOMAIN b : P(b[k])}

IsText(v) ==
  \/ v.js = "string"
  \/ IsManual(v) /\ v.type \in {"plain_text", "secret_text"}

IsKv(v) == isLinkableResource(v) /\ v.type = "kv"

IsServiceTarget(v) ==
  \/ isLinkableResource(v) /\ v.type = "worker"
  \/ IsManual(v) /\ v.type = "service" /\ v.service # ""

ServiceTargetOf(v) == IF v.hasRef THEN v.scriptName ELSE v.service

\* The keys bound to a reference of the given type
Linked(b, type) == {k \in DOMAIN b : isLinkableResource(b[k]) /\ b[k].type = type}

IsJson(v) == IsManual(v) /\ v.type = "json"

\* JSON.stringify of a string
JSONStringify(v) == "\"" \o v \o "\""

\* An identifier taken from the reference's own namespaceId
KvIdentifier_FromRef(v) == v.value

\* `kv-${name}`
KvIdentifier(v) == "kv-" \o v.name

\* A check that takes every connection string, the undefined one too
HasConnString_Always(v) == TRUE

\* if (connString)
HasConnString(v) == v.value # ""

processBindings(b) ==
  [textBindings          |-> [k \in Pick(b, IsText) \cup Pick(b, IsJson) |->
                                IF IsJson(b[k]) THEN JSONStringify(b[k].value) ELSE b[k].value],
   kvNamespaces          |-> [k \in Pick(b, IsKv) |-> KvIdentifier(b[k])],
   r2Buckets             |-> [k \in Linked(b, "bucket") |-> b[k].name],
   d1Databases           |-> [k \in Linked(b, "d1") |-> "d1-" \o b[k].name],
   queueProducers        |-> [k \in Linked(b, "queue") |-> b[k].name],
   durableObjects        |-> [k \in Linked(b, "durable_object") |->
                                [className |-> b[k].value, useSQLite |-> TRUE]],
   serviceBindingTargets |-> [k \in Pick(b, IsServiceTarget) |-> ServiceTargetOf(b[k])],
   hyperdrives           |-> [k \in {x \in Linked(b, "hyperdrive") : HasConnString(b[x])} |->
                                [connectionString |-> b[k].value]]]

\* console.warn(`Warning: Hyperdrive binding "${key}" missing localConnectionString ...`)
HyperdriveWarnings(b) == {k \in Linked(b, "hyperdrive") : ~HasConnString(b[k])}

\* workerPortMap.get(name): NoPort stands for undefined
PortMapGet(portMap, name) ==
  IF name \in DOMAIN portMap THEN portMap[name] ELSE NoPort

\* The port map built "first (needed for service bindings)": a Map keyed
\* by worker name, set in declaration order, so a later entry of the same
\* name overwrites the earlier one.
RECURSIVE LastIndexOf(_, _, _)
LastIndexOf(workers, name, i) ==
  IF i = 0 THEN 0
  ELSE IF workers[i].name = name THEN i
  ELSE LastIndexOf(workers, name, i - 1)

BuildPortMap(workers, base) ==
  [n \in {workers[i].name : i \in 1..Len(workers)} |->
      base + LastIndexOf(workers, n, Len(workers)) - 1]

\* buildMiniflareConfig: the part of the emulator configuration that
\* depends on the registry and the port map.
\* A dispatch function for every target, whether it has a port or not
ServiceBindingsOf_NoCheck(targets, portMap) ==
  [k \in DOMAIN targets |-> PortMapGet(portMap, targets[k])]

ServiceBindingsOf(targets, portMap) ==
  [k \in {x \in DOMAIN targets : PortMapGet(portMap, targets[x]) # NoPort} |->
      PortMapGet(portMap, targets[k])]

\* const fullName = `${config.app.name}-${stage}-${name}`
fullName(appName, stage, name) == appName \o "-" \o stage \o "-" \o name

buildMiniflareConfig(worker, port, portMap) ==
  LET collections == processBindings(worker.bindings)
  IN [name            |-> fullName(AppName, Stage, worker.name),
      port            |-> port,
      bindings        |-> collections.textBindings,
      kvNamespaces    |-> collections.kvNamespaces,
      serviceBindings |-> ServiceBindingsOf(collections.serviceBindingTargets, portMap)]

(***************************************************************************)
(* What is on disk: lumier.config.ts and the workers' entry files.         *)
(* A configuration file is what one evaluation of app()/run() declares, or *)
(* a file whose evaluation throws (ok = FALSE).  An entry file either      *)
(* fails to bundle or bundles to code that reads the env keys in env.      *)
(***************************************************************************)
Decl(name, entry, bindings) == [name |-> name, entry |-> entry, bindings |-> bindings]

WorkerA == Decl("a", "src/a.ts", NoBindings)
WorkerC == Decl("c", "src/a.ts", NoBindings)
\* bindings: { API: Worker("a") reference, SVC: { type: "service", service: "a" } }
WorkerB ==
  Decl("b", "src/b.ts",
       [k \in {"API", "SVC"} |-> IF k = "API" THEN WorkerOutput("a") ELSE ManualService("a")])
\* Worker("a", ...) declared a second time to attach bindings, as in the
\* durable-objects documentation
WorkerA2 ==
  Decl("a", "src/a.ts", [k \in {"SVC"} |-> ManualService("a")])

ConfigFile(workers) == [ok |-> TRUE, err |-> "none", workers |-> workers]
CfgAB == ConfigFile(<<WorkerA, WorkerB>>)
CfgCAB == ConfigFile(<<WorkerC, WorkerA, WorkerB>>)
CfgA == ConfigFile(<<WorkerA>>)
CfgAA == ConfigFile(<<WorkerA, WorkerA2>>)
CfgEmpty == ConfigFile(<< >>)
\* evaluating the file throws after run() has declared worker c (a later
\* declaration rejects its name, or user code fails)
CfgBroken == [ok |-> FALSE, err |-> "error", workers |-> <<WorkerC>>]

ConfigFiles == {CfgAB, CfgCAB, CfgA, CfgAA, CfgEmpty, CfgBroken}

Entries == {"src/a.ts", "src/b.ts"}
Bundle(compiles, env) == [compiles |-> compiles, env |-> env]
SrcPlain == [e \in Entries |-> Bundle(TRUE, {})]
SrcUsesDb == [e \in Entries |-> IF e = "src/b.ts" THEN Bundle(TRUE, {"API", "DB"}) ELSE Bundle(TRUE, {})]
SrcBroken == [e \in Entries |-> IF e = "src/a.ts" THEN Bundle(FALSE, {}) ELSE Bundle(TRUE, {})]

Sources == {SrcPlain, SrcUsesDb, SrcBroken}

\* options.worker of the dev command
WorkerFilters == {NoWorker, "b"}
BasePorts == {DEFAULT_DEV_PORT}

(***************************************************************************)
(* Registry and configuration loader.                                      *)
(***************************************************************************)
\* Of the registry's sequences the model keeps workers, kvs and buckets.
createEmptyRegistry ==
  [app |-> [name |-> "", stage |-> ""], workers |-> << >>, kvs |-> << >>,
   buckets |-> << >>, outputs |-> << >>]

\* A clearRegistry() that leaves the kvs sequence as it is
clearRegistry_KeepsKvs(reg) ==
  [reg EXCEPT !.app = [name |-> "", stage |-> ""], !.workers = << >>,
              !.buckets = << >>, !.outputs = << >>]

\* clearRegistry(): the fields of the one registry object are reassigned
clearRegistry(reg) ==
  [reg EXCEPT !.app = [name |-> "", stage |-> ""], !.workers = << >>, !.kvs = << >>,
              !.buckets = << >>, !.outputs = << >>]

\* loadConfig after clearRegistry(): the registry the evaluation leaves,
\* whether it returns or throws
\* A loadConfig that returns the registry even when the evaluation threw
LoadConfigResolves_Always(file) == TRUE

\* loadConfig has no try/catch: it resolves when the evaluation of the
\* module runs to its end and rejects with what the evaluation throws
LoadConfigResolves(file) == file.ok

LoadedRegistry(file) ==
  [createEmptyRegistry EXCEPT !.app = [name |-> AppName, stage |-> Stage],
                              !.workers = file.workers]

(***************************************************************************)
(* Resource names as the declaration functions see them: a name is a       *)
(* string, Chars gives its characters.                                     *)
(***************************************************************************)
MAX_RESOURCE_NAME == 63
Name63 == "aaaaaaaaaaaaaaaaaaaaaaaaaaaaaaaaaaaaaaaaaaaaaaaaaaaaaaaaaaaaaaa"
Name64 == "aaaaaaaaaaaaaaaaaaaaaaaaaaaaaaaaaaaaaaaaaaaaaaaaaaaaaaaaaaaaaaaa"

NameInputs == {"api", "Cache-2", "", " ", " api ", "1st", "my_kv", "-x", Name63, Name64}

Chars(name) ==
  CASE name = "api" -> <<"a", "p", "i">>
    [] name = "cache" -> <<"c", "a", "c", "h", "e">>
    [] name = "uploads" -> <<"u", "p", "l", "o", "a", "d", "s">>
    [] name = "Cache-2" -> <<"C", "a", "c", "h", "e", "-", "2">>
    [] name = "" -> << >>
    [] name = " " -> <<" ">>
    [] name = " api " -> <<" ", "a", "p", "i", " ">>
    [] name = "1st" -> <<"1", "s", "t">>
    [] name = "my_kv" -> <<"m", "y", "_", "k", "v">>
    [] name = "-x" -> <<"-", "x">>
    [] name = Name63 -> [i \in 1..63 |-> "a"]
    [] name = Name64 -> [i \in 1..64 |-> "a"]

LowerLetters ==
  {"a", "b", "c", "d", "e", "f", "g", "h", "i", "j", "k", "l", "m",
   "n", "o", "p", "q", "r", "s", "t", "u", "v", "w", "x", "y", "z"}
UpperLetters ==
  {"A", "B", "C", "D", "E", "F", "G", "H", "I", "J", "K", "L", "M",
   "N", "O", "P", "Q", "R", "S", "T", "U", "V", "W", "X", "Y", "Z"}
Digits == {"0", "1", "2", "3", "4", "5", "6", "7", "8", "9"}
WhiteSpace == {" ", "\t", "\n", "\r"}

\* String.prototype.trim
RECURSIVE TrimStart(_)
TrimStart(cs) ==
  IF Len(cs) > 0 /\ cs[1] \in WhiteSpace THEN TrimStart(Tail(cs)) ELSE cs

RECURSIVE TrimEnd(_)
TrimEnd(cs) ==
  IF Len(cs) > 0 /\ cs[Len(cs)] \in WhiteSpace THEN TrimEnd(SubSeq(cs, 1, Len(cs) - 1)) ELSE cs

Trim(cs) == TrimEnd(TrimStart(cs))

\* /^[a-z][a-z0-9-]*$/i
MatchesNameRegex(cs) ==
  /\ Len(cs) >= 1
  /\ cs[1] \in LowerLetters \cup UpperLetters
  /\ \A i \in 2..Len(cs) : cs[i] \in LowerLetters \cup UpperLetters \cup Digits \cup {"-"}

\* ResourceNameSchema.safeParse(name): trim, then min, max and regex on the
\* trimmed value; issue is the message of the first failing check
ResourceNameSchema(name) ==
  LET t == Trim(Chars(name))
  IN IF Len(t) < 1
       THEN [success |-> FALSE, issue |-> "Resource name cannot be empty"]
     ELSE IF Len(t) > MAX_RESOURCE_NAME
       THEN [success |-> FALSE, issue |-> "Resource name cannot exceed 63 characters"]
     ELSE IF ~MatchesNameRegex(t)
       THEN [success |-> FALSE,
             issue |-> "Resource name must start with a letter and contain only alphanumeric characters and hyphens"]
     ELSE [success |-> TRUE, issue |-> ""]

NoError ==
  [thrown |-> FALSE, class |-> "", code |-> "", hint |-> "", type |-> "", name |-> "", issue |-> ""]

\* validateName(name, type): throw new Error(`${type} "${name}": ${issue.message}`)
validateName(name, type) ==
  LET r == ResourceNameSchema(name)
  IN IF r.success THEN NoError
     ELSE [thrown |-> TRUE, class |-> "Error", code |-> "", hint |-> "", type |-> type,
           name |-> name, issue |-> r.issue]

\* new LumierError(message, code)
LumierError(code) ==
  [thrown |-> TRUE, class |-> "LumierError", code |-> code, hint |-> "", type |-> "", name |-> "",
   issue |-> ""]

\* new LumierError("lumier.config.ts not found", "CONFIG_NOT_FOUND", "Run: lumier init")
ConfigNotFound == [LumierError("CONFIG_NOT_FOUND") EXCEPT !.hint = "Run: lumier init"]

(***************************************************************************)
(* Configuration modules as loadConfig evaluates them: whether the file    *)
(* exists and what it exports, the app name, and the declaration calls of  *)
(* run(ctx) in order.                                                      *)
(***************************************************************************)
Kinds == {"Worker", "KV", "Bucket"}

Call(kind, name, options) == [kind |-> kind, name |-> name, options |-> options]

\* async: run is an async function; awaitAt: the declaration call before
\* which run awaits something (0: run has no await)
Module(shape, decls) ==
  [shape |-> shape, app |-> AppName, decls |-> decls, async |-> FALSE, awaitAt |-> 0]

AsyncModule(decls, awaitAt) == [Module("ok", decls) EXCEPT !.async = TRUE, !.awaitAt = awaitAt]

\* The X.existing functions and, for each, the function X
ExistingKinds ==
  {"D1.existing", "KV.existing", "Bucket.existing", "Queue.existing", "Vectorize.existing",
   "Hyperdrive.existing"}

ManagedKind(kind) ==
  CASE kind = "D1.existing" -> "D1"
    [] kind = "KV.existing" -> "KV"
    [] kind = "Bucket.existing" -> "Bucket"
    [] kind = "Queue.existing" -> "Queue"
    [] kind = "Vectorize.existing" -> "Vectorize"
    [] kind = "Hyperdrive.existing" -> "Hyperdrive"

\* run(ctx) declares a KV, then refers to an existing resource by X.existing
\* with the given name and id
ModuleExisting(kind, name) ==
  Module("ok", <<Call("KV", "cache", "o1"), Call(kind, name, "0f2ac74b498b48028cb68387c421e279")>>)

\* run(ctx) declares a KV, then a resource of the given kind and name,
\* then a bucket
ModuleWith(kind, name) ==
  Module("ok", <<Call("KV", "cache", "o1"), Call(kind, name, "o2"), Call("Bucket", "uploads", "o3")>>)

\* run(ctx) declares Worker("api") twice, as the durable-objects page does
ModuleTwice == Module("ok", <<Call("Worker", "api", "o1"), Call("Worker", "api", "o2")>>)

LoaderModules ==
  {ModuleWith(kind, name) : kind \in Kinds, name \in NameInputs}
    \cup {ModuleTwice, Module("ok", << >>), Module("missing", << >>),
          Module("no-default", << >>), Module("no-wrapper", << >>)}
    \cup {Module("not-object", << >>)}
    \cup {ModuleExisting(kind, "api") : kind \in ExistingKinds}
    \cup {ModuleExisting("KV.existing", "1st")}

\* The configurations whose run is an async function: the three
\* declarations, with no await, with an await before the second, and with a
\* name the schema rejects
RunDecls == <<Call("KV", "cache", "o1"), Call("Worker", "api", "o2"), Call("Bucket", "uploads", "o3")>>

RunModules ==
  {Module("ok", RunDecls), Module("ok", << >>), Module("missing", << >>),
   AsyncModule(RunDecls, 0), AsyncModule(RunDecls, 2), AsyncModule(RunDecls, 1),
   AsyncModule(<<Call("KV", "1st", "o1")>>, 0), AsyncModule(<< >>, 0)}

LoaderStages == {"dev", "production", "prod"}

\* isProduction(stage)
isProduction(stage) == stage = "production" \/ stage = "prod"

NoCtx == [made |-> FALSE, stage |-> "", isDev |-> FALSE, isProduction |-> FALSE]

(***************************************************************************)
(* Build step: workers are built in declaration order; the first failure   *)
(* is thrown.  "error" is a bundler error, "lumier" the LumierError        *)
(* MISSING_BINDINGS, "ok" a complete build.                                *)
(***************************************************************************)
MissingBindings(worker, src) == src[worker.entry].env \ DOMAIN worker.bindings

BuildWorker(worker, src) ==
  IF ~src[worker.entry].compiles THEN "error"
  ELSE IF MissingBindings(worker, src) # {} THEN "lumier"
  ELSE "ok"

RECURSIVE BuildFrom(_, _, _)
BuildFrom(workers, src, i) ==
  IF i > Len(workers) THEN "ok"
  ELSE IF BuildWorker(workers[i], src) # "ok" THEN BuildWorker(workers[i], src)
  ELSE BuildFrom(workers, src, i + 1)

build(reg, src) == BuildFrom(reg.workers, src, 1)

(***************************************************************************)
(* Orchestrator helpers.                                                   *)
(***************************************************************************)
\* options.worker ? config.workers.filter(w => w.name === options.worker) : config.workers
FilterWorkers(workers, opt) ==
  IF opt = NoWorker THEN workers ELSE SelectSeq(workers, LAMBDA w : w.name = opt)

\* A dev() without the check for an empty worker list
NoWorkersFound_Never(workers) == FALSE

\* if (workers.length === 0) throw new LumierError("No workers found", "NO_WORKERS")
NoWorkersFound(workers) == Len(workers) = 0

\* workers.find(w => w.name === name): index of the first match, 0 if none
RECURSIVE FindFrom(_, _, _)
FindFrom(workers, name, i) ==
  IF i > Len(workers) THEN 0
  ELSE IF workers[i].name = name THEN i
  ELSE FindFrom(workers, name, i + 1)

FindWorker(workers, name) == FindFrom(workers, name, 1)

NamesOf(workers) == {workers[i].name : i \in 1..Len(workers)}

(***************************************************************************)
(* State.                                                                  *)
(***************************************************************************)
VARIABLES
  diskConfig,           \* lumier.config.ts as it is on disk
  diskSrc,              \* the workers' entry files as they are on disk
  edits,                \* saves of files so far
  optWorker,            \* options.worker
  basePort,             \* options.port ?? DEFAULT_DEV_PORT
  registry,             \* the process-wide registry object (config aliases it)
  main,                 \* dev(): position, filtered workers, loop index, instances array
  workerPortMap,        \* the port map dev() builds at startup
  heap,                 \* array objects holding Miniflare handles
  globalInstances,      \* the array object the module variable refers to
  mf,                   \* every Miniflare object constructed so far
  globalWatcher,        \* TRUE while the source watcher is set and open
  globalConfigWatcher,  \* TRUE while the configuration watcher is set and open
  watcherCloses,        \* close() calls per watcher
  srcEvent,             \* a "change" event of the source watcher is pending
  cfgEvent,             \* a "change" event of the configuration watcher is pending
  isRebuilding,
  rb,                   \* the rebuild in flight (handleRebuild or the config handler)
  isShuttingDown,
  sd,                   \* shutdown(): position, array iterated, index, code
  repeatedShutdown,     \* shutdown() has been invoked again after its first call
  exitCode,             \* code process.exit was called with, Running before
  hist,                 \* what happened, for stating the properties
  watch,                \* the source watcher in time: write-stabilisation waits, saves
  loader,               \* one loadConfig() evaluation, declaration by declaration
  scan,                 \* one worker's bundle and bindings in the build step
  conf,                 \* one startup's emulator configurations, worker by worker
  cli,                  \* one run of the deploy command
  ports                 \* one run of --port parsing and port allocation

devVars ==
  <<diskConfig, diskSrc, edits, optWorker, basePort, registry, main, workerPortMap,
    heap, globalInstances, mf, globalWatcher, globalConfigWatcher, watcherCloses,
    srcEvent, cfgEvent, isRebuilding, rb, isShuttingDown, sd, repeatedShutdown, exitCode,
    hist>>

\* The variables of the component models below; dev()'s steps leave them alone
auxVars == <<watch, loader, scan, conf, cli, ports>>

vars == <<devVars, auxVars>>

diskVars == <<diskConfig, diskSrc, edits>>
optVars == <<optWorker, basePort>>
watchVars == <<globalWatcher, globalConfigWatcher, watcherCloses>>
eventVars == <<srcEvent, cfgEvent>>
sdVars == <<isShuttingDown, sd, repeatedShutdown>>
rbVars == <<isRebuilding, rb>>

Running == -1
Throws == -2
Alive == exitCode = Running

ArrIds == 1..5

\* The array objects still referenced keep their contents; the others are
\* garbage and are recycled.
Collect(h, live) == [a \in ArrIds |-> IF a \in live THEN h[a] ELSE << >>]

FreshArr(live) == CHOOSE a \in ArrIds : a \notin live /\ \A b \in ArrIds : b \notin live => a <= b

NoMain == [pc |-> "load", workers |-> << >>, idx |-> 0, arr |-> NoArr]
NoRb == [pc |-> "idle", kind |-> "none", workers |-> << >>, arr |-> NoArr, idx |-> 0,
         portMap |-> << >>, restart |-> FALSE]
\* The argument of shutdown(code): a number, or the signal name a signal
\* listener is called with (SIGINT and SIGTERM are not told apart).
NumberCode(n) == [isNumber |-> TRUE, n |-> n]
SignalName == [isNumber |-> FALSE, n |-> 0]
NoCode == NumberCode(0)
NoSd == [pc |-> "idle", arr |-> NoArr, idx |-> 0, code |-> NoCode]

\* new Miniflare(config): constructed, readiness pending
NewMf(worker, port, portMap, by) ==
  [name |-> worker.name, port |-> port, cfg |-> buildMiniflareConfig(worker, port, portMap),
   status |-> "starting", disposeCalls |-> [shutdown |-> 0, rebuild |-> 0],
   startedBy |-> by, afterShutdown |-> isShuttingDown]

Handles == 1..Len(mf)

SetStatus(m, h, st) == [m EXCEPT ![h].status = st]

\* instance.mf.dispose() is called
CallDispose(m, h, by) ==
  [m EXCEPT ![h].status = IF @ = "disposed" THEN @ ELSE "disposing",
            ![h].disposeCalls[by] = @ + 1]

\* The rebuild in flight, or the last one: what it was, how it ended, the
\* live list it found, whether it has called dispose / new Miniflare /
\* setOptions, and whether the worker-name set it loaded differs from the
\* names of the live list (known once the build step is over), and whether
\* a change notification was dropped since it began.
NoRbHist ==
  [kind |-> "none", phase |-> "none", failedAt |-> "none", uncaught |-> FALSE,
   prior |-> << >>, touched |-> FALSE, decided |-> FALSE, structural |-> FALSE,
   dropped |-> FALSE]

NoHist ==
  [startupBuild |-> "none",   \* outcome of the build step of dev() startup
   rb |-> NoRbHist]

(***************************************************************************)
(* The source watcher in time.  Time advances in poll intervals; a path is *)
(* a sequence of name segments and separators.                             *)
(***************************************************************************)
STABILITY_THRESHOLD == 100
POLL_INTERVAL == 50
ThresholdTicks == STABILITY_THRESHOLD \div POLL_INTERVAL

WatchedPaths ==
  { <<"src", "/", "a", ".", "ts">>,
    <<"src", "/", "b", ".", "tsx">>,
    <<"src", "/", "types", ".", "d", ".", "ts">>,
    <<"README", ".", "md">>,
    <<"lumier", ".", "config", ".", "ts">>,
    <<"node_modules", "/", "zod", "/", "index", ".", "ts">>,
    <<".", "lumier", "/", "build", "/", "a", ".", "ts">>,
    <<".", "env">> }

NoWatch ==
  [timer |-> [p \in WatchedPaths |-> 0],  \* poll intervals left of a path's stabilisation wait
   isRebuilding |-> FALSE,
   saves |-> 0,                           \* saves so far
   sinceLast |-> ThresholdTicks,          \* poll intervals since the last qualifying save
   burstRebuilds |-> 0,                   \* rebuilds started since the last quiet period ended
   startedEarly |-> FALSE,                \* a rebuild started less than a threshold after a save
   saved |-> {},                          \* the paths written so far
   handled |-> {}]                        \* the paths handleRebuild was called for

NoCall == [made |-> FALSE, kind |-> "", name |-> "", error |-> NoError, before |-> createEmptyRegistry]
NoPrev == [done |-> FALSE, ok |-> FALSE, module |-> Module("missing", << >>),
           reg |-> createEmptyRegistry, refs |-> << >>]

NoLoader ==
  [pc |-> "idle",
   stage |-> "dev",                \* the stage of this process
   loads |-> 0,                    \* loadConfig calls so far
   module |-> Module("missing", << >>),   \* the configuration module on disk at this load
   idx |-> 0,                      \* the next declaration call of run(ctx)
   reg |-> createEmptyRegistry,    \* the registry object on globalThis
   refs |-> << >>,                 \* the references the declaration calls returned
   error |-> NoError,              \* what loadConfig threw
   last |-> NoCall,                \* the last declaration call and the registry before it
   prev |-> NoPrev,                \* the load before this one: its module and what it left
   ctx |-> NoCtx,                  \* the RuntimeContext handed to run
   appCalls |-> 0,                 \* calls of config.app in this load
   runCalls |-> 0,                 \* calls of config.run in this load
   pending |-> << >>,              \* runs that returned a promise and have not finished
   late |-> 0]                     \* declarations made after loadConfig returned, since the last load began
(***************************************************************************)
(* A worker's bundle as build() reads it back: statements, each a sequence *)
(* of tokens (words and punctuation), together with the env key the        *)
(* statement reads from the worker's environment when it runs ("" if none).*)
(***************************************************************************)
Statement(tokens, reads) == [tokens |-> tokens, reads |-> reads]

Statements ==
  { Statement(<<"env", ".", "DB", ".", "prepare", "(", ")">>, "DB"),
    Statement(<<"env", ".", "API", ".", "fetch", "(", ")">>, "API"),
    Statement(<<"env", "[", "\"", "KV", "\"", "]">>, "KV"),
    Statement(<<"const", " ", "{", "QUEUE", "}", " ", "=", " ", "env">>, "QUEUE"),
    Statement(<<"process", ".", "env", ".", "DEBUG">>, ""),
    Statement(<<"log", "(", "\"", "set", " ", "env", ".", "HINT", "\"", ")">>, ""),
    Statement(<<"myenv", ".", "X">>, "") }

Punctuation == {".", "(", ")", "[", "]", "{", "}", "=", "\"", " ", ";"}

BindingKeys == {"DB", "API", "CACHE"}

NoScan ==
  [pc |-> "idle",
   builds |-> 0,             \* workers built so far
   name |-> "",              \* the worker's name
   configured |-> {},        \* Object.keys(workerOpts.bindings ?? {})
   code |-> << >>,           \* the bundle's statements
   error |-> [thrown |-> FALSE, class |-> "", code |-> "", worker |-> "", keys |-> << >>]]

(***************************************************************************)
(* Registries as the emulator configuration is built from them: a worker   *)
(* "b" with a binding map, with or without a worker "a" declared before    *)
(* it, and the cron triggers of config.crons.                              *)
(***************************************************************************)
BindingInputs ==
  { Str("dev"),
    ManualText("plain_text", "v"), ManualText("secret_text", "s"), ManualText("json", "v"),
    ManualText("ai", ""), ManualService("a"), ManualService(""),
    WorkerOutput("a"), KVOutput("cache"),
    Linkable("kv", "cache", "0f2ac74b498b48028cb68387c421e279"),   \* KV.existing("cache", { id })
    Linkable("bucket", "uploads", ""), Linkable("d1", "db", ""), Linkable("queue", "jobs", ""),
    Linkable("durable_object", "rooms", "ChatRoom"),
    Linkable("hyperdrive", "pg", "postgres://localhost:5432/db"),
    Linkable("hyperdrive", "pg", ""),
    Linkable("vectorize", "emb", ""),
    Untyped("number"), Untyped("null"), Untyped("object") }

ServiceInputs == {ManualService("a"), WorkerOutput("a"), ManualService(""), Str("x")}

BindingMaps ==
  {[k \in {"CACHE", "SVC"} |-> IF k = "CACHE" THEN c ELSE v] : c \in BindingInputs, v \in ServiceInputs}

\* Cron(name, { worker, schedule }) as registry.crons holds it
CronEntry(name, workerName, schedule) ==
  [name |-> name, options |-> [worker |-> WorkerOutput(workerName), schedule |-> schedule]]

CronLists ==
  { << >>,
    <<CronEntry("daily", "b", "0 0 * * *")>>,
    <<CronEntry("daily", "b", "0 0 * * *"), CronEntry("tick", "a", "* * * * *"),
      CronEntry("hourly", "b", "0 * * * *")>> }

ConfFilters == {NoWorker, "a", "b"}

NoConf ==
  [pc |-> "idle",
   starts |-> 0,               \* configurations built so far
   workers |-> << >>,          \* config.workers
   crons |-> << >>,            \* config.crons
   filter |-> NoWorker,        \* options.worker
   selected |-> << >>,         \* the workers after the filter
   portMap |-> << >>,          \* workerPortMap
   idx |-> 0,                  \* the loop over the selected workers
   instances |-> << >>,        \* the instances created, with what buildMiniflareConfig computed
   error |-> NoError]

(***************************************************************************)
(* The deploy command: the stage given with --stage, the protect array of  *)
(* app(), and whether loadConfig, generateTypes and build succeed.         *)
(***************************************************************************)
DeployStages == {"dev", "staging", "production"}

\* app.protect; no protect array behaves as an empty one (protect?.includes)
ProtectLists == SUBSET {"staging", "production"}

NoCli ==
  [pc |-> "idle",
   deploys |-> 0,             \* runs of the command so far
   stage |-> "",
   protect |-> {},
   fails |-> "none",          \* the step that throws in this run, if any
   typesGenerated |-> FALSE,  \* generateTypes has been called
   built |-> FALSE,           \* build has been called
   refused |-> "",            \* the stage the protection message names
   exitedAt |-> "",           \* the step at which process.exit was called
   exitCode |-> 0]

(***************************************************************************)
(* The dev command's --port flag and the port allocation: the flag's value *)
(* as a sequence of characters, and the worker names of the registry.      *)
(***************************************************************************)
MIN_PORT == 1024
MAX_PORT == 65535

\* flags.port when it is not a string (no --port, or --port without value)
NoFlag == <<"<not a string>">>

PortFlags ==
  { NoFlag, << >>,
    <<"8", "7", "8", "7">>, <<"1", "0", "2", "4">>, <<"1", "0", "2", "3">>,
    <<"6", "5", "5", "3", "5">>, <<"6", "5", "5", "3", "4">>, <<"6", "5", "5", "3", "6">>,
    <<"8", "0">>, <<"a", "b", "c">>, <<"9", "0", "0", "0", "x">>, <<" ", "3", "0", "0", "0">>,
    <<"-", "1">> }

PortWorkerLists ==
  { <<"a">>, <<"a", "b">>, <<"a", "b", "c">>, <<"a", "a">>, <<"a", "b", "c", "d">> }

DigitValue(c) ==
  CASE c = "0" -> 0 [] c = "1" -> 1 [] c = "2" -> 2 [] c = "3" -> 3 [] c = "4" -> 4
    [] c = "5" -> 5 [] c = "6" -> 6 [] c = "7" -> 7 [] c = "8" -> 8 [] c = "9" -> 9

\* The value of the longest prefix of digits of cs from position i on,
\* acc being the value of the digits read so far
RECURSIVE ReadDigits(_, _, _)
ReadDigits(cs, i, acc) ==
  IF i > Len(cs) \/ cs[i] \notin Digits THEN acc
  ELSE ReadDigits(cs, i + 1, acc * 10 + DigitValue(cs[i]))

\* parseInt(value, 10): leading white space is skipped, a sign is read,
\* then the longest prefix of digits; NaN when there is no digit
parseInt(value) ==
  LET cs == TrimStart(value)
      signed == Len(cs) > 0 /\ cs[1] \in {"-", "+"}
      first == IF signed THEN 2 ELSE 1
      n == ReadDigits(cs, first, 0)
  IN IF first > Len(cs) \/ cs[first] \notin Digits
       THEN [nan |-> TRUE, n |-> 0]
       ELSE [nan |-> FALSE, n |-> IF signed /\ cs[1] = "-" THEN 0 - n ELSE n]

\* PortSchema: z.number().int().min(1024).max(65535)
PortSchema(port) == port >= MIN_PORT /\ port <= MAX_PORT

\* parsePort(value, defaultPort): the port, or the ValidationError thrown
parsePort(value, defaultPort) ==
  IF value = << >> THEN [thrown |-> FALSE, port |-> defaultPort]
  ELSE IF parseInt(value).nan THEN [thrown |-> TRUE, port |-> 0]
  ELSE IF ~PortSchema(parseInt(value).n) THEN [thrown |-> TRUE, port |-> parseInt(value).n]
  ELSE [thrown |-> FALSE, port |-> parseInt(value).n]

\* typeof flags.port === "string" ? parsePort(flags.port, DEFAULT_DEV_PORT) : DEFAULT_DEV_PORT
PortOption(flag) ==
  IF flag = NoFlag THEN [thrown |-> FALSE, port |-> DEFAULT_DEV_PORT]
  ELSE parsePort(flag, DEFAULT_DEV_PORT)

NoPorts ==
  [pc |-> "idle",
   runs |-> 0,
   flag |-> NoFlag,            \* flags.port
   thrown |-> FALSE,           \* parsePort threw a ValidationError
   basePort |-> 0,             \* options.port ?? DEFAULT_DEV_PORT
   workers |-> << >>,          \* the names of the selected workers
   idx |-> 0,                  \* the loop over the workers
   currentPort |-> 0,
   portMap |-> << >>]          \* workerPortMap

InitDev ==
  /\ diskConfig \in ConfigFiles
  /\ diskSrc \in Sources
  /\ edits = 0
  /\ optWorker \in WorkerFilters
  /\ basePort \in BasePorts
  /\ registry = createEmptyRegistry
  /\ main = NoMain
  /\ workerPortMap = << >>
  /\ heap = [a \in ArrIds |-> << >>]
  /\ globalInstances = 1
  /\ mf = << >>
  /\ globalWatcher = FALSE
  /\ globalConfigWatcher = FALSE
  /\ watcherCloses = [src |-> 0, cfg |-> 0]
  /\ srcEvent = FALSE
  /\ cfgEvent = FALSE
  /\ isRebuilding = FALSE
  /\ rb = NoRb
  /\ isShuttingDown = FALSE
  /\ sd = NoSd
  /\ repeatedShutdown = FALSE
  /\ exitCode = Running
  /\ hist = NoHist

Init ==
  /\ InitDev
  /\ watch = NoWatch
  /\ loader = NoLoader
  /\ scan = NoScan
  /\ conf = NoConf
  /\ cli = NoCli
  /\ ports = NoPorts

(***************************************************************************)
(* dev(): startup.                                                         *)
(***************************************************************************)
\* err instanceof LumierError in the catch around the startup build
StartupBuildCaught(err) == err = "lumier"

\* dev() rejects: main()'s catch prints the error and calls process.exit(1)
DevThrows == /\ main' = [main EXCEPT !.pc = "threw"]
             /\ exitCode' = 1

\* let config = await loadConfig()
DevLoad ==
  /\ Alive /\ main.pc = "load"
  /\ IF LoadConfigResolves(diskConfig)
       THEN /\ registry' = LoadedRegistry(diskConfig)
            /\ main' = [main EXCEPT !.pc = "build"]
            /\ UNCHANGED exitCode
       ELSE /\ registry' = LoadedRegistry(diskConfig)
            /\ DevThrows
  /\ UNCHANGED <<diskVars, optVars, auxVars, workerPortMap, heap, globalInstances, mf, watchVars,
                 eventVars, rbVars, sdVars, hist>>

\* try { await build(config, ...) } catch (err) { LumierError: log; else throw }
DevBuild ==
  /\ Alive /\ main.pc = "build"
  /\ LET r == build(registry, diskSrc)
     IN /\ hist' = [hist EXCEPT !.startupBuild = r]
        /\ IF r = "ok" \/ StartupBuildCaught(r)
             THEN /\ main' = [main EXCEPT !.pc = "gen"]
                  /\ UNCHANGED exitCode
             ELSE DevThrows
  /\ UNCHANGED <<diskVars, optVars, auxVars, registry, workerPortMap, heap, globalInstances, mf,
                 watchVars, eventVars, rbVars, sdVars>>

\* await generateAll(...) returns; then, without a further await: the
\* worker filter, the NO_WORKERS check, the port map and the first
\* new Miniflare(...), up to await mf.ready
DevGenerate ==
  /\ Alive /\ main.pc = "gen"
  /\ LET workers == FilterWorkers(registry.workers, optWorker)
         portMap == BuildPortMap(workers, basePort)
         arr == FreshArr({globalInstances, sd.arr})
     IN IF NoWorkersFound(workers)
          THEN /\ DevThrows
               /\ UNCHANGED <<workerPortMap, heap, mf>>
          ELSE /\ workerPortMap' = portMap
               /\ main' = [pc |-> "start", workers |-> workers, idx |-> 1, arr |-> arr]
               /\ heap' = [heap EXCEPT ![arr] = << >>]
               /\ mf' = Append(mf, NewMf(workers[1], PortMapGet(portMap, workers[1].name),
                                         portMap, "startup"))
               /\ UNCHANGED exitCode
  /\ UNCHANGED <<diskVars, optVars, auxVars, registry, globalInstances, watchVars, eventVars,
                 rbVars, sdVars, hist>>

\* A startup loop that is left after its first round
LoopDone_AfterFirst(idx, n) == TRUE

\* for (const worker of workers) { ... await mf.ready; instances.push(...) }:
\* the loop is over when round idx was the last of n
LoopDone(idx, n) == ~(idx < n)

\* await mf.ready resolves: instances.push(...); then either the next
\* new Miniflare(...) or, after the last one, globalInstances = instances
\* and both watchers are created
DevReady ==
  /\ Alive /\ main.pc = "start"
  /\ LET h == Len(mf)
         pushed == [heap EXCEPT ![main.arr] = Append(@, h)]
     IN IF ~LoopDone(main.idx, Len(main.workers))
          THEN LET w == main.workers[main.idx + 1]
               IN /\ mf' = Append(SetStatus(mf, h, "ready"),
                                  NewMf(w, PortMapGet(workerPortMap, w.name),
                                        workerPortMap, "startup"))
                  /\ heap' = pushed
                  /\ main' = [main EXCEPT !.idx = @ + 1]
                  /\ UNCHANGED <<globalInstances, globalWatcher, globalConfigWatcher>>
          ELSE /\ mf' = SetStatus(mf, h, "ready")
               /\ globalInstances' = main.arr
               /\ heap' = Collect(pushed, {main.arr, sd.arr})
               /\ main' = [main EXCEPT !.pc = "serving", !.arr = NoArr]
               /\ globalWatcher' = TRUE
               /\ globalConfigWatcher' = TRUE
  /\ UNCHANGED <<diskVars, optVars, auxVars, registry, workerPortMap, watcherCloses, eventVars,
                 rbVars, sdVars, exitCode, hist>>

\* await mf.ready rejects: dev() rejects
DevReadyFail ==
  /\ Alive /\ main.pc = "start"
  /\ mf' = SetStatus(mf, Len(mf), "failed")
  /\ DevThrows
  /\ UNCHANGED <<diskVars, optVars, auxVars, registry, workerPortMap, heap, globalInstances,
                 watchVars, eventVars, rbVars, sdVars, hist>>

(***************************************************************************)
(* shutdown(code).                                                         *)
(***************************************************************************)
\* A shutdown without the guard: a repeated call is never stopped
ShutdownGuard_Off(flag) == FALSE

\* if (isShuttingDown) return;
ShutdownGuard(flag) == flag

\* process.exit(code): a number exits with it.  A signal name (the
\* argument process.on("SIGINT", shutdown) passes) is not an exit code:
\* the runtime either coerces it to 0 or throws ERR_INVALID_ARG_TYPE,
\* depending on its version.
ExitOutcomes(code) == IF code.isNumber THEN {code.n} ELSE {0, Throws}

\* globalInstances = []; process.exit(code)
ShutdownFinish(h, code, keep) ==
  LET arr == FreshArr(keep)
  IN /\ globalInstances' = arr
     /\ heap' = Collect([h EXCEPT ![arr] = << >>], keep \cup {arr})
     /\ \E out \in ExitOutcomes(code) :
          IF out = Throws
            THEN /\ sd' = [pc |-> "threw", arr |-> NoArr, idx |-> 0, code |-> code]
                 /\ UNCHANGED exitCode
            ELSE /\ sd' = [pc |-> "exited", arr |-> NoArr, idx |-> 0, code |-> code]
                 /\ exitCode' = out

ShutdownCall(code) ==
  /\ Alive
  /\ repeatedShutdown' = isShuttingDown
  /\ IF ShutdownGuard(isShuttingDown)
       THEN UNCHANGED <<isShuttingDown, sd, globalWatcher, globalConfigWatcher, watcherCloses,
                        heap, globalInstances, mf, exitCode, hist, eventVars>>
       ELSE /\ isShuttingDown' = TRUE
            /\ srcEvent' = FALSE
            /\ cfgEvent' = FALSE
            /\ globalWatcher' = FALSE
            /\ globalConfigWatcher' = FALSE
            /\ watcherCloses' = [src |-> watcherCloses.src + (IF globalWatcher THEN 1 ELSE 0),
                                 cfg |-> watcherCloses.cfg + (IF globalConfigWatcher THEN 1 ELSE 0)]
            /\ UNCHANGED hist
            /\ IF Len(heap[globalInstances]) = 0
                 THEN /\ ShutdownFinish(heap, code, {main.arr, rb.arr} \ {NoArr})
                      /\ UNCHANGED mf
                 ELSE /\ sd' = [pc |-> "dispose", arr |-> globalInstances, idx |-> 1,
                                code |-> code]
                      /\ mf' = CallDispose(mf, heap[globalInstances][1], "shutdown")
                      /\ UNCHANGED <<heap, globalInstances, exitCode>>
  /\ UNCHANGED <<diskVars, optVars, auxVars, registry, main, workerPortMap, rbVars>>

\* process.on("SIGINT", shutdown) / process.on("SIGTERM", shutdown): the
\* listener is called with the signal name as its first argument
Signal == ShutdownCall(SignalName)

\* process.on("uncaughtException", err => { ...; shutdown(1) })
UncaughtException == ShutdownCall(NumberCode(1))

\* await instance.mf.dispose() resolves inside shutdown's loop
ShutdownDisposed ==
  /\ Alive /\ sd.pc = "dispose"
  /\ LET h == heap[sd.arr][sd.idx]
         done == SetStatus(mf, h, "disposed")
     IN IF sd.idx < Len(heap[sd.arr])
          THEN /\ mf' = CallDispose(done, heap[sd.arr][sd.idx + 1], "shutdown")
               /\ sd' = [sd EXCEPT !.idx = @ + 1]
               /\ UNCHANGED <<heap, globalInstances, exitCode>>
          ELSE /\ mf' = done
               /\ ShutdownFinish(heap, sd.code, {main.arr, rb.arr} \ {NoArr})
  /\ UNCHANGED <<diskVars, optVars, auxVars, registry, main, workerPortMap, watchVars, eventVars,
                 rbVars, isShuttingDown, repeatedShutdown, hist>>

(***************************************************************************)
(* The user edits files; the watchers deliver "change" events.             *)
(***************************************************************************)
\* A worker entry file (.ts) is saved.
EditSource ==
  /\ Alive /\ edits < MaxEdits
  /\ \E src \in Sources : diskSrc' = src
  /\ edits' = edits + 1
  /\ srcEvent' = (srcEvent \/ globalWatcher)
  /\ UNCHANGED <<diskConfig, optVars, auxVars, registry, main, workerPortMap, heap,
                 globalInstances, mf, watchVars, cfgEvent, rbVars, sdVars, exitCode, hist>>

\* lumier.config.ts is saved.
EditConfig ==
  /\ Alive /\ edits < MaxEdits
  /\ \E file \in ConfigFiles \ {diskConfig} : diskConfig' = file
  /\ edits' = edits + 1
  /\ cfgEvent' = (cfgEvent \/ globalConfigWatcher)
  /\ UNCHANGED <<diskSrc, optVars, auxVars, registry, main, workerPortMap, heap, globalInstances, mf,
                 watchVars, srcEvent, rbVars, sdVars, exitCode, hist>>

(***************************************************************************)
(* handleRebuild(filename) and the configuration watcher's handler.        *)
(***************************************************************************)
\* A catch block that, like the startup one, takes only LumierError
RebuildCatches_LumierOnly(err) == err = "lumier"

\* catch (err) { log(...) } of both handlers: every error is logged
RebuildCatches(err) == TRUE

\* A handler that restarts on every configuration change
NeedsRestart_Always(currentNames, newNames) == TRUE

\* addedWorkers.length > 0 || removedWorkers.length > 0
NeedsRestart(currentNames, newNames) ==
  \/ newNames \ currentNames # {}
  \/ currentNames \ newNames # {}

InstanceNames(list) == {mf[list[i]].name : i \in 1..Len(list)}

\* Handlers that start a rebuild whatever the flag says
RebuildGuard_Off(flag) == FALSE

\* if (isRebuilding) return;
RebuildGuard(flag) == flag

\* if (isRebuilding) return; isRebuilding = true; ... loadConfig() runs
\* clearRegistry() before its first await
RebuildEnter(kind) ==
  IF RebuildGuard(isRebuilding)
    THEN /\ UNCHANGED <<registry, isRebuilding, rb>>
         /\ hist' = [hist EXCEPT !.rb.dropped = TRUE]
    ELSE /\ isRebuilding' = TRUE
         /\ registry' = clearRegistry(registry)
         /\ rb' = [NoRb EXCEPT !.pc = "load", !.kind = kind]
         /\ hist' = [hist EXCEPT !.rb = [NoRbHist EXCEPT !.kind = kind, !.phase = "running",
                                                         !.prior = heap[globalInstances]]]

\* globalWatcher.on("change", ...) for a .ts / .tsx path
SrcChange ==
  /\ Alive /\ srcEvent
  /\ srcEvent' = FALSE
  /\ RebuildEnter("hot")
  /\ UNCHANGED <<diskVars, optVars, auxVars, main, workerPortMap, heap, globalInstances, mf, watchVars,
                 cfgEvent, sdVars, exitCode>>

\* globalConfigWatcher.on("change", ...)
CfgChange ==
  /\ Alive /\ cfgEvent
  /\ cfgEvent' = FALSE
  /\ RebuildEnter("cfg")
  /\ UNCHANGED <<diskVars, optVars, auxVars, main, workerPortMap, heap, globalInstances, mf, watchVars,
                 srcEvent, sdVars, exitCode>>

\* The try block throws at step `at` with error `err`.  Caught: logged,
\* then isRebuilding = false.  Not caught: the handler's promise rejects
\* and isRebuilding stays set.
RebuildFails(at, err) ==
  /\ rb' = NoRb
  /\ IF RebuildCatches(err)
       THEN /\ isRebuilding' = FALSE
            /\ hist' = [hist EXCEPT !.rb.phase = "failed", !.rb.failedAt = at]
       ELSE /\ UNCHANGED isRebuilding
            /\ hist' = [hist EXCEPT !.rb.phase = "failed", !.rb.failedAt = at,
                                    !.rb.uncaught = TRUE]

\* The try block runs to its end; isRebuilding = false
RebuildDone ==
  /\ rb' = NoRb
  /\ isRebuilding' = FALSE

\* config = await loadConfig() settles
RebuildLoad ==
  /\ Alive /\ rb.pc = "load"
  /\ IF LoadConfigResolves(diskConfig)
       THEN /\ registry' = LoadedRegistry(diskConfig)
            /\ rb' = [rb EXCEPT !.pc = IF rb.kind = "cfg" THEN "gen" ELSE "build"]
            /\ UNCHANGED <<isRebuilding, hist>>
       ELSE /\ registry' = LoadedRegistry(diskConfig)
            /\ RebuildFails("load", diskConfig.err)
  /\ UNCHANGED <<diskVars, optVars, auxVars, main, workerPortMap, heap, globalInstances, mf, watchVars,
                 eventVars, sdVars, exitCode>>

\* await generateAll(config, rootDir, lumierDir, { force: true }) settles
RebuildGenerate ==
  /\ Alive /\ rb.pc = "gen"
  /\ \/ /\ rb' = [rb EXCEPT !.pc = "build"]
        /\ UNCHANGED <<isRebuilding, hist>>
     \/ RebuildFails("gen", "error")
  /\ UNCHANGED <<diskVars, optVars, auxVars, registry, main, workerPortMap, heap, globalInstances, mf,
                 watchVars, eventVars, sdVars, exitCode>>

\* for (const instance of <array>): the next index at or after `from`
\* whose instance has a worker of its name (the others are skipped), or
\* 0 when the iteration ends
RECURSIVE NextUpdatable(_, _, _)
NextUpdatable(list, workers, from) ==
  IF from > Len(list) THEN 0
  ELSE IF FindWorker(workers, mf[list[from]].name) # 0 THEN from
  ELSE NextUpdatable(list, workers, from + 1)

\* The in-place update loop is entered or continued at index `from`:
\* instance.mf.setOptions(...) is called and awaited, or the loop is over.
UpdateFrom(workers, arr, from, hst) ==
  LET i == NextUpdatable(heap[arr], workers, from)
  IN IF i = 0
       THEN /\ RebuildDone
            /\ hist' = [hst EXCEPT !.rb.phase = "ok"]
       ELSE /\ rb' = [rb EXCEPT !.pc = "setopt", !.workers = workers, !.arr = arr, !.idx = i]
            /\ UNCHANGED isRebuilding
            /\ hist' = [hst EXCEPT !.rb.touched = TRUE]

\* globalInstances = []; the new port map; then the first
\* new Miniflare(...) of the restart, up to await mf.ready
StartFresh(workers, hst, m) ==
  LET arr == FreshArr({globalInstances, sd.arr})
      portMap == BuildPortMap(workers, basePort)
  IN /\ globalInstances' = arr
     /\ heap' = Collect([heap EXCEPT ![arr] = << >>], {arr, sd.arr})
     /\ IF Len(workers) = 0
          THEN /\ RebuildDone
               /\ mf' = m
               /\ hist' = [hst EXCEPT !.rb.phase = "ok"]
          ELSE /\ rb' = [pc |-> "start", kind |-> rb.kind, workers |-> workers, arr |-> NoArr,
                         idx |-> 1, portMap |-> portMap, restart |-> TRUE]
               /\ mf' = Append(m, NewMf(workers[1], PortMapGet(portMap, workers[1].name),
                                        portMap, "rebuild"))
               /\ UNCHANGED isRebuilding
               /\ hist' = [hst EXCEPT !.rb.touched = TRUE]

\* "Dispose all and restart": the dispose loop is entered
RestartBegin(workers, hst) ==
  LET list == heap[globalInstances]
  IN IF Len(list) = 0
       THEN StartFresh(workers, hst, mf)
       ELSE /\ rb' = [pc |-> "dispose", kind |-> rb.kind, workers |-> workers,
                      arr |-> globalInstances, idx |-> 1, portMap |-> << >>, restart |-> TRUE]
            /\ mf' = CallDispose(mf, list[1], "rebuild")
            /\ hist' = [hst EXCEPT !.rb.touched = TRUE]
            /\ UNCHANGED <<isRebuilding, heap, globalInstances>>

\* await build(config, ...) settles; on success the handler goes on,
\* without a further await, to its first dispose() or setOptions() call
RebuildBuild ==
  /\ Alive /\ rb.pc = "build"
  /\ LET r == build(registry, diskSrc)
         filtered == FilterWorkers(registry.workers, optWorker)
         current == InstanceNames(heap[globalInstances])
         hst == [hist EXCEPT !.rb.decided = TRUE,
                             !.rb.structural = (current # NamesOf(filtered))]
     IN IF r # "ok"
          THEN /\ RebuildFails("build", r)
               /\ UNCHANGED <<heap, globalInstances, mf>>
          ELSE IF rb.kind = "hot"
            THEN /\ UpdateFrom(registry.workers, globalInstances, 1, hst)
                 /\ UNCHANGED <<heap, globalInstances, mf>>
          ELSE IF NeedsRestart(current, NamesOf(filtered))
            THEN RestartBegin(filtered, hst)
          ELSE /\ UpdateFrom(filtered, globalInstances, 1, hst)
               /\ UNCHANGED <<heap, globalInstances, mf>>
  /\ UNCHANGED <<diskVars, optVars, auxVars, registry, main, workerPortMap, watchVars, eventVars,
                 sdVars, exitCode>>

\* await instance.mf.dispose() resolves inside the restart's dispose loop
RebuildDisposed ==
  /\ Alive /\ rb.pc = "dispose"
  /\ LET done == SetStatus(mf, heap[rb.arr][rb.idx], "disposed")
     IN IF rb.idx < Len(heap[rb.arr])
          THEN /\ mf' = CallDispose(done, heap[rb.arr][rb.idx + 1], "rebuild")
               /\ rb' = [rb EXCEPT !.idx = @ + 1]
               /\ UNCHANGED <<isRebuilding, heap, globalInstances, hist>>
          ELSE StartFresh(rb.workers, hist, done)
  /\ UNCHANGED <<diskVars, optVars, auxVars, registry, main, workerPortMap, watchVars, eventVars,
                 sdVars, exitCode>>

\* await instance.mf.dispose() rejects inside the restart's dispose loop
RebuildDisposeFail ==
  /\ Alive /\ rb.pc = "dispose"
  /\ RebuildFails("dispose", "error")
  /\ UNCHANGED <<diskVars, optVars, auxVars, registry, main, workerPortMap, heap, globalInstances, mf,
                 watchVars, eventVars, sdVars, exitCode>>

\* await mf.ready resolves inside the restart's start loop:
\* globalInstances.push(...), then the next new Miniflare(...) or the end
RebuildReady ==
  /\ Alive /\ rb.pc = "start"
  /\ LET h == Len(mf)
     IN /\ heap' = [heap EXCEPT ![globalInstances] = Append(@, h)]
        /\ IF rb.idx < Len(rb.workers)
             THEN LET w == rb.workers[rb.idx + 1]
                  IN /\ mf' = Append(SetStatus(mf, h, "ready"),
                                     NewMf(w, PortMapGet(rb.portMap, w.name), rb.portMap,
                                           "rebuild"))
                     /\ rb' = [rb EXCEPT !.idx = @ + 1]
                     /\ UNCHANGED <<isRebuilding, hist>>
             ELSE /\ mf' = SetStatus(mf, h, "ready")
                  /\ RebuildDone
                  /\ hist' = [hist EXCEPT !.rb.phase = "ok"]
  /\ UNCHANGED <<diskVars, optVars, auxVars, registry, main, workerPortMap, globalInstances, watchVars,
                 eventVars, sdVars, exitCode>>

\* await mf.ready rejects inside the restart's start loop
RebuildReadyFail ==
  /\ Alive /\ rb.pc = "start"
  /\ mf' = SetStatus(mf, Len(mf), "failed")
  /\ RebuildFails("start", "error")
  /\ UNCHANGED <<diskVars, optVars, auxVars, registry, main, workerPortMap, heap, globalInstances,
                 watchVars, eventVars, sdVars, exitCode>>

\* await instance.mf.setOptions(mfConfig) resolves: the instance runs the
\* configuration built from the reloaded registry, its own port and the
\* port map of dev()'s startup
RebuildSetOptions ==
  /\ Alive /\ rb.pc = "setopt"
  /\ LET h == heap[rb.arr][rb.idx]
         worker == rb.workers[FindWorker(rb.workers, mf[h].name)]
     IN /\ mf[h].status = "ready"
        /\ mf' = [mf EXCEPT ![h].cfg = buildMiniflareConfig(worker, mf[h].port, workerPortMap)]
        /\ UpdateFrom(rb.workers, rb.arr, rb.idx + 1, hist)
  /\ UNCHANGED <<diskVars, optVars, auxVars, registry, main, workerPortMap, heap, globalInstances,
                 watchVars, eventVars, sdVars, exitCode>>

\* await instance.mf.setOptions(mfConfig) rejects
RebuildSetOptionsFail ==
  /\ Alive /\ rb.pc = "setopt"
  /\ RebuildFails("setopt", "error")
  /\ UNCHANGED <<diskVars, optVars, auxVars, registry, main, workerPortMap, heap, globalInstances, mf,
                 watchVars, eventVars, sdVars, exitCode>>

(***************************************************************************)
(* Specification.                                                          *)
(***************************************************************************)
Next ==
  \/ DevLoad
  \/ DevBuild
  \/ DevGenerate
  \/ DevReady
  \/ DevReadyFail
  \/ Signal
  \/ UncaughtException
  \/ ShutdownDisposed
  \/ EditSource
  \/ EditConfig
  \/ SrcChange
  \/ CfgChange
  \/ RebuildLoad
  \/ RebuildGenerate
  \/ RebuildBuild
  \/ RebuildDisposed
  \/ RebuildDisposeFail
  \/ RebuildReady
  \/ RebuildReadyFail
  \/ RebuildSetOptions
  \/ RebuildSetOptionsFail

Spec == Init /\ [][Next]_vars

\* A dev session in which no shutdown is requested: no signal arrives and
\* nothing raises an uncaught exception.
NextServing ==
  \/ DevLoad
  \/ DevBuild
  \/ DevGenerate
  \/ DevReady
  \/ DevReadyFail
  \/ EditSource
  \/ EditConfig
  \/ SrcChange
  \/ CfgChange
  \/ RebuildLoad
  \/ RebuildGenerate
  \/ RebuildBuild
  \/ RebuildDisposed
  \/ RebuildDisposeFail
  \/ RebuildReady
  \/ RebuildReadyFail
  \/ RebuildSetOptions
  \/ RebuildSetOptionsFail

SpecServing == Init /\ [][NextServing]_vars

\* A step of the rebuild in flight: the promise the handler awaits settles
RebuildProgress ==
  \/ RebuildLoad
  \/ RebuildGenerate
  \/ RebuildBuild
  \/ RebuildDisposed
  \/ RebuildDisposeFail
  \/ RebuildReady
  \/ RebuildReadyFail
  \/ RebuildSetOptions
  \/ RebuildSetOptionsFail

\* The dev session under the assumption that every promise a handler
\* awaits (loadConfig, generateAll, build, dispose, ready, setOptions)
\* settles: it resolves or it rejects.
SpecSettling == Init /\ [][NextServing]_vars /\ WF_vars(RebuildProgress)

(***************************************************************************)
(* globalWatcher: chokidar with awaitWriteFinish, and its change handler.  *)
(***************************************************************************)
EndsWith(p, suffix) ==
  /\ Len(p) >= Len(suffix)
  /\ SubSeq(p, Len(p) - Len(suffix) + 1, Len(p)) = suffix

Includes(p, part) ==
  \E i \in 1..(Len(p) - Len(part) + 1) : SubSeq(p, i, i + Len(part) - 1) = part

\* An ignore function without the clause for the configuration file
Ignored_NoConfig(p) ==
  \/ Includes(p, <<"node_modules">>)
  \/ Includes(p, <<".", "lumier">>)
  \/ Includes(p, <<".", "env">>)
  \/ EndsWith(p, <<".", "d", ".", "ts">>)

\* ignored: (filePath) => ...
Ignored(p) ==
  \/ Includes(p, <<"node_modules">>)
  \/ Includes(p, <<".", "lumier">>)
  \/ Includes(p, <<".", "env">>)
  \/ EndsWith(p, <<".", "d", ".", "ts">>)
  \/ Includes(p, <<"lumier", ".", "config", ".">>)

\* if (filepath.endsWith(".ts") || filepath.endsWith(".tsx")) handleRebuild(...)
TriggersRebuild(p) == EndsWith(p, <<".", "ts">>) \/ EndsWith(p, <<".", "tsx">>)

Qualifying(p) == ~Ignored(p) /\ TriggersRebuild(p)

Min(a, b) == IF a <= b THEN a ELSE b

\* A file is written.  An ignored path is not watched; for any other path
\* the stabilisation wait of that path starts, or starts again.
Save(p) ==
  /\ watch.saves < MaxSaves
  /\ watch' = [watch EXCEPT
       !.saves = @ + 1,
       !.saved = @ \cup {p},
       !.timer[p] = IF Ignored(p) THEN @ ELSE ThresholdTicks,
       !.sinceLast = IF Qualifying(p) THEN 0 ELSE @,
       !.burstRebuilds = IF Qualifying(p) /\ watch.sinceLast >= ThresholdTicks THEN 0 ELSE @]
  /\ UNCHANGED <<devVars, loader, scan, conf, cli, ports>>

SaveFile == \E p \in WatchedPaths : Save(p)

\* One poll interval passes.  Every path whose size was stable for the
\* threshold emits "change"; the handler runs for each: handleRebuild
\* starts a rebuild unless one is in flight.
Tick ==
  /\ \/ \E p \in WatchedPaths : watch.timer[p] > 0
     \/ watch.sinceLast < ThresholdTicks
  /\ LET emitted == {p \in WatchedPaths : watch.timer[p] = 1}
         since == Min(watch.sinceLast + 1, ThresholdTicks)
         starts == (\E p \in emitted : TriggersRebuild(p)) /\ ~RebuildGuard(watch.isRebuilding)
     IN watch' = [watch EXCEPT
          !.timer = [p \in WatchedPaths |-> IF @[p] > 0 THEN @[p] - 1 ELSE 0],
          !.sinceLast = since,
          !.isRebuilding = @ \/ starts,
          !.handled = @ \cup {p \in emitted : TriggersRebuild(p)},
          !.burstRebuilds = IF starts THEN Min(@ + 1, 2) ELSE @,
          !.startedEarly = @ \/ (starts /\ since < ThresholdTicks)]
  /\ UNCHANGED <<devVars, loader, scan, conf, cli, ports>>

\* handleRebuild runs to its end: isRebuilding = false
RebuildFinish ==
  /\ watch.isRebuilding
  /\ watch' = [watch EXCEPT !.isRebuilding = FALSE]
  /\ UNCHANGED <<devVars, loader, scan, conf, cli, ports>>

InitWatch ==
  /\ InitDev
  /\ diskConfig = CfgAB /\ diskSrc = SrcPlain /\ optWorker = NoWorker
  /\ watch = NoWatch
  /\ loader = NoLoader
  /\ scan = NoScan
  /\ conf = NoConf
  /\ cli = NoCli
  /\ ports = NoPorts

NextWatch ==
  \/ SaveFile
  \/ Tick
  \/ RebuildFinish

SpecWatch == InitWatch /\ [][NextWatch]_vars

(***************************************************************************)
(* loadConfig(stage), declaration call by declaration call.                *)
(***************************************************************************)
RegField(kind) ==
  CASE kind = "Worker" -> "workers"
    [] kind = "KV" -> "kvs"
    [] kind = "Bucket" -> "buckets"

\* The type tag of the reference a declaration function returns
TypeTag(kind) ==
  CASE kind = "Worker" -> "worker"
    [] kind = "KV" -> "kv"
    [] kind = "Bucket" -> "bucket"
    [] kind = "D1" -> "d1"
    [] kind = "Queue" -> "queue"
    [] kind = "Vectorize" -> "vectorize"
    [] kind = "Hyperdrive" -> "hyperdrive"

\* What the declaration functions return.  The worker's script name is
\* read from registry.app at the time of the call.  id is the identifier in
\* the reference (scriptName, namespaceId, bucketName, ...), conn is
\* _ref.localConnectionString ("" for undefined), existing is _ref.existing.
\* options stands for options.localConnectionString of Hyperdrive and for the
\* id or name given to X.existing.
Reference(kind, name, options, app) ==
  IF kind \in ExistingKinds
    THEN [type |-> CASE kind = "D1.existing" -> "d1"
                     [] kind = "KV.existing" -> "kv"
                     [] kind = "Bucket.existing" -> "bucket"
                     [] kind = "Queue.existing" -> "queue"
                     [] kind = "Vectorize.existing" -> "vectorize"
                     [] kind = "Hyperdrive.existing" -> "hyperdrive",
          name |-> name, id |-> options, existing |-> TRUE, conn |-> ""]
    ELSE [type |-> TypeTag(kind), name |-> name,
          id |-> CASE kind = "Worker" -> ScriptName(app.name, app.stage, name)
                   [] kind = "KV" -> "kv-" \o name
                   [] kind = "D1" -> "d1-" \o name
                   [] kind = "Hyperdrive" -> "hyperdrive-" \o name
                   [] OTHER -> name,
          existing |-> FALSE,
          conn |-> IF kind = "Hyperdrive" THEN options ELSE ""]

\* What an async run returns to loadConfig
Promise == [type |-> "promise", name |-> "", id |-> "", existing |-> FALSE, conn |-> ""]

\* registry.<kind>.push({ name, options }); X.existing pushes nothing
Push(reg, kind, name, options) ==
  IF kind \in ExistingKinds THEN reg
  ELSE [reg EXCEPT ![RegField(kind)] = Append(@, [name |-> name, options |-> options])]

\* loadConfig throws: the load is over
LoadThrows(l, err) == [l EXCEPT !.pc = "done", !.error = err]

\* loadConfig(stage) is called with module m on disk: clearRegistry(),
\* then fs.access
LoadBegin(m) ==
  /\ loader.pc \in {"idle", "done"} /\ loader.loads < MaxLoads
  /\ LET l == [loader EXCEPT
                 !.loads = @ + 1, !.module = m, !.idx = 0, !.refs = << >>,
                 !.error = NoError, !.last = NoCall,
                 !.ctx = NoCtx, !.appCalls = 0, !.runCalls = 0, !.late = 0,
                 !.reg = clearRegistry(@),
                 !.prev = IF loader.pc = "done"
                            THEN [done |-> TRUE, ok |-> ~loader.error.thrown,
                                  module |-> loader.module, reg |-> loader.reg,
                                  refs |-> loader.refs]
                            ELSE NoPrev]
     IN loader' = IF m.shape = "missing"
                    THEN LoadThrows(l, ConfigNotFound)
                    ELSE [l EXCEPT !.pc = "import"]
  /\ UNCHANGED <<devVars, watch, scan, conf, cli, ports>>

LoadStart == \E m \in LoaderModules : LoadBegin(m)

\* A shape check that lets a default export without the $config marker pass
ValidShape_NoMarker(m) == m.shape \in {"ok", "no-wrapper"}

\* configModule.default is an object and config._lumier is set
ValidShape(m) == m.shape = "ok"

\* await import(...) settles: the shape checks, config.app({ stage }),
\* registry.app = { ...appConfig, stage }, ctx, and run(ctx) is entered
LoadImport ==
  /\ loader.pc = "import"
  /\ loader' = IF ~ValidShape(loader.module)
                 THEN LoadThrows(loader, LumierError("INVALID_CONFIG"))
                 ELSE [loader EXCEPT !.pc = "run", !.idx = 1,
                                     !.appCalls = @ + 1, !.runCalls = @ + 1,
                                     !.reg.app = [name |-> loader.module.app,
                                                  stage |-> loader.stage],
                                     !.ctx = [made |-> TRUE, stage |-> loader.stage,
                                              isDev |-> ~isProduction(loader.stage),
                                              isProduction |-> isProduction(loader.stage)]]
  /\ UNCHANGED <<devVars, watch, scan, conf, cli, ports>>

\* run(ctx) is at an await
AtAwait(l) == l.module.async /\ l.module.awaitAt = l.idx

\* The next declaration call of run(ctx): validateName, push, return.
\* What a call throws leaves loadConfig when run is a plain function; an
\* async run turns it into the rejection of the promise it returns.
Declare ==
  /\ loader.pc = "run" /\ loader.idx <= Len(loader.module.decls) /\ ~AtAwait(loader)
  /\ LET c == loader.module.decls[loader.idx]
         err == validateName(c.name, c.kind)
         called == [made |-> TRUE, kind |-> c.kind, name |-> c.name, error |-> err,
                    before |-> loader.reg]
     IN loader' = IF err.thrown /\ ~loader.module.async
                    THEN [LoadThrows(loader, err) EXCEPT !.last = called]
                  ELSE IF err.thrown
                    THEN [loader EXCEPT !.last = called, !.pc = "done",
                                        !.reg.outputs = <<Promise>>]
                  ELSE [loader EXCEPT
                          !.last = called,
                          !.idx = @ + 1,
                          !.reg = Push(@, c.kind, c.name, c.options),
                          !.refs = Append(@, Reference(c.kind, c.name, c.options,
                                                       loader.reg.app))]
  /\ UNCHANGED <<devVars, watch, scan, conf, cli, ports>>

\* run(ctx) returns its outputs; registry.outputs = outputs; return registry
LoadReturn ==
  /\ loader.pc = "run" /\ loader.idx > Len(loader.module.decls) /\ ~loader.module.async
  /\ loader' = [loader EXCEPT !.pc = "done", !.reg.outputs = loader.refs]
  /\ UNCHANGED <<devVars, watch, scan, conf, cli, ports>>

\* An async run(ctx) reaches its first await, or its end: the call returns
\* a promise, which loadConfig stores as outputs (config.run(ctx) ?? {} is
\* not awaited) before it returns the registry.  A run stopped at an await
\* goes on later.
LoadReturnPromise ==
  /\ loader.pc = "run" /\ loader.module.async
  /\ AtAwait(loader) \/ loader.idx > Len(loader.module.decls)
  /\ loader' = [loader EXCEPT
                  !.pc = "done", !.reg.outputs = <<Promise>>,
                  !.pending = IF AtAwait(loader) /\ loader.idx <= Len(loader.module.decls)
                                THEN Append(@, [decls |-> loader.module.decls, idx |-> loader.idx])
                                ELSE @]
  /\ UNCHANGED <<devVars, watch, scan, conf, cli, ports>>

\* The declaration calls of a resumed run from call i on, up to the first
\* that throws
RECURSIVE PushFrom(_, _, _)
PushFrom(reg, decls, i) ==
  IF i > Len(decls) \/ validateName(decls[i].name, decls[i].kind).thrown THEN reg
  ELSE PushFrom(Push(reg, decls[i].kind, decls[i].name, decls[i].options), decls, i + 1)

\* What a pending run awaited settles while loadConfig is not executing
\* (it has returned, or it is itself at an await): the run makes the rest
\* of its declaration calls on the registry object as it is now
RunResumes ==
  /\ loader.pc \in {"import", "done"}
  /\ Len(loader.pending) > 0
  /\ LET p == Head(loader.pending)
         reg == PushFrom(loader.reg, p.decls, p.idx)
     IN loader' = [loader EXCEPT !.pending = Tail(@), !.reg = reg,
                                 !.late = @ + (Len(p.decls) - p.idx + 1)]
  /\ UNCHANGED <<devVars, watch, scan, conf, cli, ports>>

RunStart == \E m \in RunModules : LoadBegin(m)

InitLoad ==
  /\ InitDev
  /\ diskConfig = CfgAB /\ diskSrc = SrcPlain /\ optWorker = NoWorker
  /\ watch = NoWatch
  /\ \E st \in LoaderStages : loader = [NoLoader EXCEPT !.stage = st]
  /\ scan = NoScan
  /\ conf = NoConf
  /\ cli = NoCli
  /\ ports = NoPorts

NextLoad ==
  \/ LoadStart
  \/ LoadImport
  \/ Declare
  \/ LoadReturn

SpecLoad == InitLoad /\ [][NextLoad]_vars

\* loadConfig with configurations whose run may be an async function
NextRun ==
  \/ RunStart
  \/ LoadImport
  \/ Declare
  \/ LoadReturn
  \/ LoadReturnPromise
  \/ RunResumes

SpecRun == InitLoad /\ [][NextRun]_vars

(***************************************************************************)
(* build(): the binding check of one worker.                               *)
(***************************************************************************)
\* \w+ : a token that is a word
IsWord(t) == t \notin Punctuation

Flatten(code) ==
  LET F[i \in 0..Len(code)] == IF i = 0 THEN << >> ELSE F[i - 1] \o code[i].tokens \o <<";">>
  IN F[Len(code)]

\* ENV_ACCESS_PATTERN = /\benv\.(\w+)\b/g, exec'd until null;
\* usedBindings.add(match[1]): the captured keys in order of first match
UsedBindings(tokens) ==
  LET U[i \in 0..Len(tokens)] ==
        IF i = 0 THEN << >>
        ELSE IF /\ i + 2 <= Len(tokens)
                /\ tokens[i] = "env" /\ tokens[i + 1] = "." /\ IsWord(tokens[i + 2])
                /\ \A j \in 1..Len(U[i - 1]) : U[i - 1][j] # tokens[i + 2]
               THEN Append(U[i - 1], tokens[i + 2])
               ELSE U[i - 1]
  IN U[Len(tokens)]

\* for (const binding of usedBindings) if (!configuredBindings.has(binding)) push
MissingOf(used, configured) == SelectSeq(used, LAMBDA k : k \notin configured)

\* A worker with its bindings and its bundle comes up in build()'s loop
ScanStart ==
  /\ scan.pc \in {"idle", "done"} /\ scan.builds < MaxBuilds
  /\ \E name \in {"api", "web"}, configured \in SUBSET BindingKeys,
        s1 \in Statements, s2 \in Statements :
       \E code \in {<<s1>>, <<s1, s2>>} :
         scan' = [NoScan EXCEPT !.pc = "bundled", !.builds = scan.builds + 1, !.name = name,
                                !.configured = configured, !.code = code]
  /\ UNCHANGED <<devVars, watch, loader, conf, cli, ports>>

\* bundledCode is read back and checked: throw new LumierError(
\*   `Worker "${name}" uses bindings that are not configured: ${missing.join(", ")}...`,
\*   "MISSING_BINDINGS") when something is missing
ScanCheck ==
  /\ scan.pc = "bundled"
  /\ LET missing == MissingOf(UsedBindings(Flatten(scan.code)), scan.configured)
     IN scan' = [scan EXCEPT
          !.pc = "done",
          !.error = IF Len(missing) > 0
                      THEN [thrown |-> TRUE, class |-> "LumierError", code |-> "MISSING_BINDINGS",
                            worker |-> scan.name, keys |-> missing]
                      ELSE @]
  /\ UNCHANGED <<devVars, watch, loader, conf, cli, ports>>

InitScan ==
  /\ InitDev
  /\ diskConfig = CfgAB /\ diskSrc = SrcPlain /\ optWorker = NoWorker
  /\ watch = NoWatch
  /\ loader = NoLoader
  /\ scan = NoScan
  /\ conf = NoConf
  /\ cli = NoCli
  /\ ports = NoPorts

NextScan ==
  \/ ScanStart
  \/ ScanCheck

SpecScan == InitScan /\ [][NextScan]_vars

(***************************************************************************)
(* dev(): from the loaded registry to the instances, with every binding    *)
(* collection and the cron triggers.                                       *)
(***************************************************************************)
\* buildCronsByWorker: a Map from options.worker._ref.scriptName to the
\* schedules declared against it, in declaration order
buildCronsByWorker(crons) ==
  [sn \in {crons[i].options.worker.scriptName : i \in 1..Len(crons)} |->
     LET sel == SelectSeq(crons, LAMBDA c : c.options.worker.scriptName = sn)
     IN [i \in 1..Len(sel) |-> sel[i].options.schedule]]

\* cronsByWorker.get(name); << >> stands for undefined
CronsGet(cronsByWorker, name) ==
  IF name \in DOMAIN cronsByWorker THEN cronsByWorker[name] ELSE << >>

\* workerConfig of buildMiniflareConfig with all its collections, and crons
\* when crons && crons.length > 0
workerConfig(worker, port, cronsByWorker, portMap) ==
  LET collections == processBindings(worker.bindings)
  IN buildMiniflareConfig(worker, port, portMap) @@
       [r2Buckets      |-> collections.r2Buckets,
        d1Databases    |-> collections.d1Databases,
        queueProducers |-> collections.queueProducers,
        durableObjects |-> collections.durableObjects,
        hyperdrives    |-> collections.hyperdrives,
        crons          |-> CronsGet(cronsByWorker, worker.name)]

\* dev() after loadConfig: filter, NO_WORKERS, the port map
ConfStart ==
  /\ conf.pc \in {"idle", "done"} /\ conf.starts < MaxStarts
  /\ \E b \in BindingMaps, withA \in BOOLEAN, crons \in CronLists, filter \in ConfFilters :
       LET wb == Decl("b", "src/b.ts", b)
           workers == IF withA THEN <<WorkerA, wb>> ELSE <<wb>>
           selected == FilterWorkers(workers, filter)
           c == [NoConf EXCEPT !.starts = conf.starts + 1, !.workers = workers,
                               !.crons = crons, !.filter = filter, !.selected = selected]
       IN conf' = IF NoWorkersFound(selected)
                    THEN [c EXCEPT !.pc = "done", !.error = LumierError("NO_WORKERS")]
                    ELSE [c EXCEPT !.pc = "instances", !.idx = 1,
                                   !.portMap = BuildPortMap(selected, DEFAULT_DEV_PORT)]
  /\ UNCHANGED <<devVars, watch, loader, scan, cli, ports>>

\* One round of the loop: buildMiniflareConfig, new Miniflare, await
\* mf.ready, instances.push; after the last round globalInstances is set
ConfInstance ==
  /\ conf.pc = "instances"
  /\ LET worker == conf.selected[conf.idx]
         port == PortMapGet(conf.portMap, worker.name)
         inst == [name |-> worker.name, port |-> port,
                  collections |-> processBindings(worker.bindings),
                  warnings |-> HyperdriveWarnings(worker.bindings),
                  config |-> workerConfig(worker, port, buildCronsByWorker(conf.crons),
                                          conf.portMap)]
     IN conf' = [conf EXCEPT !.instances = Append(@, inst),
                             !.idx = @ + 1,
                             !.pc = IF conf.idx = Len(conf.selected) THEN "done" ELSE @]
  /\ UNCHANGED <<devVars, watch, loader, scan, cli, ports>>

InitConf ==
  /\ InitDev
  /\ diskConfig = CfgAB /\ diskSrc = SrcPlain /\ optWorker = NoWorker
  /\ watch = NoWatch
  /\ loader = NoLoader
  /\ scan = NoScan
  /\ conf = NoConf
  /\ cli = NoCli
  /\ ports = NoPorts

NextConf ==
  \/ ConfStart
  \/ ConfInstance

SpecConf == InitConf /\ [][NextConf]_vars

(***************************************************************************)
(* main(): the deploy command.                                             *)
(***************************************************************************)
\* A check that lets every stage pass
checkStageProtection_Open(protect, stage) == TRUE

\* checkStageProtection(app, stage, action): true unless app.protect
\* includes the stage
checkStageProtection(protect, stage) == stage \notin protect

\* the catch of main: the message is printed and process.exit(1)
DeployExit(c, at) == [c EXCEPT !.pc = "exited", !.exitedAt = at, !.exitCode = 1]

\* lumier deploy --stage <stage>
DeployStart ==
  /\ cli.pc \in {"idle", "done", "exited"} /\ cli.deploys < MaxDeploys
  /\ \E stage \in DeployStages, protect \in ProtectLists,
        fails \in {"none", "load", "types", "build"} :
       cli' = [NoCli EXCEPT !.pc = "load", !.deploys = cli.deploys + 1, !.stage = stage,
                            !.protect = protect, !.fails = fails]
  /\ UNCHANGED <<devVars, watch, loader, scan, conf, ports>>

\* const config = await loadConfig(stage);
\* if (!checkStageProtection(config.app, stage, "deploy")) process.exit(1);
DeployLoad ==
  /\ cli.pc = "load"
  /\ cli' = IF cli.fails = "load" THEN DeployExit(cli, "load")
            ELSE IF ~checkStageProtection(cli.protect, cli.stage)
              THEN [DeployExit(cli, "protect") EXCEPT !.refused = cli.stage]
            ELSE [cli EXCEPT !.pc = "types"]
  /\ UNCHANGED <<devVars, watch, loader, scan, conf, ports>>

\* await generateTypes(config, ROOT_DIR)
DeployTypes ==
  /\ cli.pc = "types"
  /\ cli' = IF cli.fails = "types"
              THEN [DeployExit(cli, "types") EXCEPT !.typesGenerated = TRUE]
              ELSE [cli EXCEPT !.pc = "build", !.typesGenerated = TRUE]
  /\ UNCHANGED <<devVars, watch, loader, scan, conf, ports>>

\* await build(config, ...)
DeployBuild ==
  /\ cli.pc = "build"
  /\ cli' = IF cli.fails = "build"
              THEN [DeployExit(cli, "build") EXCEPT !.built = TRUE]
              ELSE [cli EXCEPT !.pc = "done", !.built = TRUE]
  /\ UNCHANGED <<devVars, watch, loader, scan, conf, ports>>

InitCli ==
  /\ InitDev
  /\ diskConfig = CfgAB /\ diskSrc = SrcPlain /\ optWorker = NoWorker
  /\ watch = NoWatch
  /\ loader = NoLoader
  /\ scan = NoScan
  /\ conf = NoConf
  /\ cli = NoCli
  /\ ports = NoPorts

NextCli ==
  \/ DeployStart
  \/ DeployLoad
  \/ DeployTypes
  \/ DeployBuild

SpecCli == InitCli /\ [][NextCli]_vars

(***************************************************************************)
(* main() and dev(): the --port flag and the port map, set by set.         *)
(***************************************************************************)
\* main(): the dev case reads flags.port; dev(): basePort, currentPort
PortsStart ==
  /\ ports.pc \in {"idle", "done"} /\ ports.runs < MaxAllocations
  /\ \E flag \in PortFlags, workers \in PortWorkerLists :
       LET opt == PortOption(flag)
           p == [NoPorts EXCEPT !.runs = ports.runs + 1, !.flag = flag, !.workers = workers]
       IN ports' = IF opt.thrown
                     THEN [p EXCEPT !.pc = "done", !.thrown = TRUE]
                     ELSE [p EXCEPT !.pc = "assign", !.basePort = opt.port,
                                    !.currentPort = opt.port, !.idx = 1]
  /\ UNCHANGED <<devVars, watch, loader, scan, conf, cli>>

\* workerPortMap.set(worker.name, currentPort++)
PortsAssign ==
  /\ ports.pc = "assign"
  /\ LET name == ports.workers[ports.idx]
     IN ports' = [ports EXCEPT
          !.portMap = [n \in DOMAIN @ \cup {name} |-> IF n = name THEN ports.currentPort ELSE @[n]],
          !.currentPort = @ + 1,
          !.idx = @ + 1,
          !.pc = IF ports.idx = Len(ports.workers) THEN "done" ELSE @]
  /\ UNCHANGED <<devVars, watch, loader, scan, conf, cli>>

InitPorts ==
  /\ InitDev
  /\ diskConfig = CfgAB /\ diskSrc = SrcPlain /\ optWorker = NoWorker
  /\ watch = NoWatch
  /\ loader = NoLoader
  /\ scan = NoScan
  /\ conf = NoConf
  /\ cli = NoCli
  /\ ports = NoPorts

NextPorts ==
  \/ PortsStart
  \/ PortsAssign

SpecPorts == InitPorts /\ [][NextPorts]_vars

(***************************************************************************)
(* Properties.                                                             *)
(***************************************************************************)
Live == heap[globalInstances]
LiveSet == {Live[i] : i \in 1..Len(Live)}
Filtered == FilterWorkers(registry.workers, optWorker)

\* The worker a service-binding value is meant to reach
TargetWorker(v) == IF v.hasRef THEN v.name ELSE v.service

\* The declarations of the loaded registry that carry a given name
DeclsOf(name) == {registry.workers[i] : i \in {j \in 1..Len(registry.workers) :
                                                 registry.workers[j].name = name}}

StartupOnly == main.pc = "serving" /\ hist.rb.kind = "none"

\* C1: after dev startup, for workers A and B of the same run where B binds
\* key K to the reference returned by Worker(A) and A has a port, B's
\* emulator configuration has a dispatch function for K and it targets the
\* port allocated to A.
C1_WorkerRefDispatch ==
  StartupOnly =>
    \A i \in 1..Len(Live) :
      LET w == main.workers[i]
          cfg == mf[Live[i]].cfg
      IN \A k \in DOMAIN w.bindings :
           (isLinkableResource(w.bindings[k]) /\ w.bindings[k].type = "worker"
              /\ w.bindings[k].name \in DOMAIN workerPortMap)
           => /\ k \in DOMAIN cfg.serviceBindings
              /\ cfg.serviceBindings[k] = workerPortMap[w.bindings[k].name]

\* C2: after any sequence of successful reconfigurations, every dispatch
\* function in a live instance's configuration targets the port on which
\* the live instance of its target worker is listening.
C2_NoStaleDispatch ==
  (main.pc = "serving" /\ ~isRebuilding /\ ~isShuttingDown /\ hist.rb.phase \in {"none", "ok"})
  => \A h \in LiveSet :
       \A k \in DOMAIN mf[h].cfg.serviceBindings :
         \A d \in DeclsOf(mf[h].name) :
           k \in DOMAIN d.bindings
           => \E j \in LiveSet :
                /\ mf[j].name = TargetWorker(d.bindings[k])
                /\ mf[j].port = mf[h].cfg.serviceBindings[k]

RestartCompleted ==
  /\ hist.rb.kind = "cfg" /\ hist.rb.phase = "ok"
  /\ hist.rb.decided /\ hist.rb.structural
  /\ ~isRebuilding /\ ~isShuttingDown

\* C3: when a configuration-file change yields a filtered worker-name set
\* that differs from the live instance names, every previously live
\* instance is disposed, and afterwards the live list holds exactly one
\* instance per worker of the new set, with ports basePort, basePort + 1,
\* ... in declaration order.
C3_StructuralRestart ==
  RestartCompleted =>
    /\ \A i \in 1..Len(hist.rb.prior) : mf[hist.rb.prior[i]].status = "disposed"
    /\ Len(Live) = Len(Filtered)
    /\ \A i \in 1..Len(Live) :
         /\ mf[Live[i]].name = Filtered[i].name
         /\ mf[Live[i]].port = basePort + i - 1
         /\ mf[Live[i]].status = "ready"

\* The same statement for configurations that declare no worker name twice.
C3_StructuralRestartDistinctNames ==
  (RestartCompleted /\ Cardinality(NamesOf(Filtered)) = Len(Filtered)) =>
    /\ \A i \in 1..Len(hist.rb.prior) : mf[hist.rb.prior[i]].status = "disposed"
    /\ Len(Live) = Len(Filtered)
    /\ \A i \in 1..Len(Live) :
         /\ mf[Live[i]].name = Filtered[i].name
         /\ mf[Live[i]].port = basePort + i - 1
         /\ mf[Live[i]].status = "ready"

\* A step of the rebuild in flight
RebuildStep == rb' # rb

\* The rebuild is a hot rebuild, or a configuration-file rebuild that found
\* the loaded worker names equal to the live instance names
HotCase(h) ==
  \/ h.rb.kind = "hot"
  \/ h.rb.kind = "cfg" /\ h.rb.decided /\ ~h.rb.structural

\* C4: a rebuild that does not change the worker-name set disposes no
\* instance and creates none: the live list has the same names, ports and
\* handles before and after; only configurations are swapped in place.
C4_HotUpdateFrame ==
  [][(RebuildStep /\ HotCase(hist'))
       => /\ globalInstances' = globalInstances
          /\ heap' = heap
          /\ Len(mf') = Len(mf)
          /\ \A h \in 1..Len(mf) :
               /\ mf'[h].status = mf[h].status
               /\ mf'[h].name = mf[h].name
               /\ mf'[h].port = mf[h].port
               /\ mf'[h].cfg.port = mf[h].cfg.port
               /\ mf'[h].disposeCalls = mf[h].disposeCalls]_vars

C4_Witness ==
  /\ hist.rb.kind = "cfg" /\ hist.rb.phase = "ok"
  /\ hist.rb.decided /\ ~hist.rb.structural /\ hist.rb.touched
  /\ Len(Live) > 0
  /\ \E h \in LiveSet : DOMAIN mf[h].cfg.serviceBindings # {}

\* C5: if configuration loading or the build step fails during a
\* watch-triggered rebuild, the error is caught, no live instance is
\* disposed or reconfigured, and the live list is what it was before.
C5_FailedRebuildLeavesInstances ==
  (hist.rb.phase = "failed" /\ hist.rb.failedAt \in {"load", "build"})
  => /\ ~hist.rb.uncaught
     /\ ~hist.rb.touched
     /\ (~isShuttingDown => Live = hist.rb.prior)
     /\ (rb.pc = "idle" => ~isRebuilding)

C5_Witness ==
  /\ hist.rb.phase = "failed" /\ hist.rb.failedAt = "build"
  /\ Len(hist.rb.prior) > 0
  /\ Live = hist.rb.prior
  /\ \A h \in LiveSet : mf[h].status = "ready"

\* C6: if a structural reconfiguration fails at any step, including while
\* cold-starting the new set, the previously running instances remain live.
C6_FailedRestartKeepsPrior ==
  (hist.rb.phase = "failed" /\ hist.rb.kind = "cfg" /\ hist.rb.decided /\ hist.rb.structural
     /\ ~isShuttingDown)
  => /\ Live = hist.rb.prior
     /\ \A h \in LiveSet : mf[h].status = "ready"

\* C7: if the build step fails during dev startup (a missing-bindings
\* failure included), dev terminates with that error and no emulator
\* instance is started.
C7_StartupBuildFailureIsFatal ==
  hist.startupBuild \in {"lumier", "error"} => (main.pc # "serving" /\ Len(mf) = 0)

\* C8: whenever shutdown is triggered, every instance that was started and
\* not yet disposed is disposed before the process exits, and no instance
\* is started after shutdown has begun.
C8_ShutdownDisposesAll ==
  /\ sd.pc = "exited" => \A h \in 1..Len(mf) : mf[h].status \in {"disposed", "failed"}
  /\ \A h \in 1..Len(mf) : ~mf[h].afterShutdown

\* The first step in which shutdown() is invoked again
RepeatedCall == isShuttingDown /\ ~repeatedShutdown /\ repeatedShutdown'

C10_ExitCodes ==
  sd.pc \in {"exited", "threw"} =>
    exitCode = (IF sd.code.isNumber THEN 1 ELSE 0)

\* A step that delivers a change notification while a rebuild is in flight
DropStep ==
  /\ isRebuilding
  /\ \/ srcEvent /\ ~srcEvent'
     \/ cfgEvent /\ ~cfgEvent'

\* C11: at most one rebuild is in flight at any time (a rebuild starts only
\* when none is running, and the flag is set exactly while one runs); a
\* change notification of either watcher delivered while a rebuild is in
\* flight starts nothing, changes nothing of the rebuild in flight and
\* leaves no notification pending.
C11_ReentrancyGuard ==
  [][/\ DropStep => /\ UNCHANGED <<rb, isRebuilding, registry, mf, heap, globalInstances,
                                   main, workerPortMap>>
                    /\ srcEvent' => srcEvent
                    /\ cfgEvent' => cfgEvent
     /\ (rb.pc = "idle" /\ rb'.pc # "idle") => ~isRebuilding
     /\ isRebuilding' <=> rb'.pc # "idle"]_vars

C11_Witness ==
  /\ hist.rb.dropped /\ isRebuilding /\ rb.pc \in {"build", "setopt", "start"}
  /\ ~srcEvent /\ ~cfgEvent

\* Nothing is running and nothing is pending: without a further save the
\* program takes no step
Quiescent ==
  /\ main.pc = "serving" /\ ~isShuttingDown
  /\ ~isRebuilding /\ ~srcEvent /\ ~cfgEvent

\* C12: no change is lost forever: once the last rebuild has succeeded and
\* nothing is running or pending, the registry the instances were
\* configured from is the one the configuration file on disk declares.
C12_NoChangeLost ==
  (Quiescent /\ hist.rb.phase = "ok" /\ diskConfig.ok)
  => registry.workers = diskConfig.workers

\* C13: debounce: a rebuild starts only when a quiet period of the
\* threshold has passed since the last qualifying save, and the qualifying
\* saves of one burst (each less than a threshold after the one before)
\* produce exactly one rebuild.
C13_Debounce ==
  /\ ~watch.startedEarly
  /\ watch.burstRebuilds <= 1

\* The identifier pattern: 1 to 63 characters, a letter first, then
\* letters, digits and hyphens
NameOk(name) ==
  LET cs == Chars(name)
  IN /\ Len(cs) >= 1 /\ Len(cs) <= 63
     /\ cs[1] \in LowerLetters \cup UpperLetters
     /\ \A i \in 2..Len(cs) : cs[i] \in LowerLetters \cup UpperLetters \cup Digits \cup {"-"}

\* The declaration calls run(ctx) gets through: all of them, or those
\* before the first one whose name the schema rejects
RECURSIVE Accepted(_, _)
Accepted(decls, i) ==
  IF i > Len(decls) \/ ~ResourceNameSchema(decls[i].name).success THEN << >>
  ELSE <<decls[i]>> \o Accepted(decls, i + 1)

EntriesOf(calls, kind) ==
  LET sel == SelectSeq(calls, LAMBDA c : c.kind = kind)
  IN [i \in 1..Len(sel) |-> [name |-> sel[i].name, options |-> sel[i].options]]

\* What one evaluation of the module leaves in the registry
Evaluation(m, stage) ==
  LET calls == IF m.shape = "ok" THEN Accepted(m.decls, 1) ELSE << >>
      complete == m.shape = "ok" /\ Len(calls) = Len(m.decls)
      app == IF m.shape = "ok" THEN [name |-> m.app, stage |-> stage]
                               ELSE [name |-> "", stage |-> ""]
  IN [app |-> app,
      workers |-> EntriesOf(calls, "Worker"),
      kvs |-> EntriesOf(calls, "KV"),
      buckets |-> EntriesOf(calls, "Bucket"),
      outputs |-> IF complete
                    THEN [i \in 1..Len(calls) |->
                            Reference(calls[i].kind, calls[i].name, calls[i].options, app)]
                    ELSE << >>]

IdentifierOf(type, appName, stage, name) ==
  CASE type = "worker" -> appName \o "-" \o stage \o "-" \o name
    [] type = "kv" -> "kv-" \o name
    [] type = "d1" -> "d1-" \o name
    [] type = "bucket" -> name
    [] type = "queue" -> name
    [] OTHER -> name

Sequences(reg) == <<reg.workers, reg.kvs, reg.buckets>>

\* C16: a declaration function called with a name that violates the
\* identifier pattern throws a ValidationError that names the resource and
\* the rule, and leaves every registry sequence as it was.
C16_InvalidNameRejected ==
  (loader.last.made /\ ~NameOk(loader.last.name)) =>
    /\ loader.last.error.thrown
    /\ loader.last.error.class = "ValidationError"
    /\ loader.last.error.type = loader.last.kind
    /\ loader.last.error.name = loader.last.name
    /\ loader.last.error.issue # ""
    /\ Sequences(loader.reg) = Sequences(loader.last.before)

\* The same with the class left open, for names the schema rejects
C16_RejectedNameLeavesRegistry ==
  (loader.last.made /\ ~ResourceNameSchema(loader.last.name).success) =>
    /\ loader.last.error.thrown
    /\ loader.last.error.type = loader.last.kind
    /\ loader.last.error.name = loader.last.name
    /\ loader.last.error.issue # ""
    /\ Sequences(loader.reg) = Sequences(loader.last.before)

StoredNames(reg) ==
  {reg.workers[i].name : i \in 1..Len(reg.workers)}
    \cup {reg.kvs[i].name : i \in 1..Len(reg.kvs)}
    \cup {reg.buckets[i].name : i \in 1..Len(reg.buckets)}

\* C17: every name stored in the registry matches the identifier pattern
\* exactly as stored.
C17_StoredNamesMatchPattern ==
  \A name \in StoredNames(loader.reg) : NameOk(name)

\* C18: within one load, no registry sequence holds two entries of the
\* same name.
C18_NamesUniquePerKind ==
  \A seq \in {loader.reg.workers, loader.reg.kvs, loader.reg.buckets} :
    \A i, j \in 1..Len(seq) : seq[i].name = seq[j].name => i = j

\* The registries a successful loadConfig returns
CompleteRegistries == {LoadedRegistry(f) : f \in {g \in ConfigFiles : g.ok}}

\* dev() or a rebuild handler is at a point from which it goes on to read
\* the registry: the build step, code generation, the construction of an
\* emulator configuration
RegistryInUse ==
  \/ main.pc \in {"build", "gen", "start"}
  \/ rb.pc \in {"gen", "build", "dispose", "start", "setopt"}

ReloadFailed == hist.rb.phase = "failed" /\ hist.rb.failedAt = "load"

ReferencedKeys(code) == {code[i].reads : i \in 1..Len(code)} \ {""}

\* C20: the build of a worker fails with a missing-bindings error exactly
\* when its bundle reads an env key that the worker's binding map lacks;
\* the error names the worker and every missing key, each once; a binding
\* that is declared and never read causes no error.
C20_BindingCoverage ==
  scan.pc = "done" =>
    LET absent == ReferencedKeys(scan.code) \ scan.configured
        named == {scan.error.keys[i] : i \in 1..Len(scan.error.keys)}
    IN /\ scan.error.thrown <=> absent # {}
       /\ scan.error.thrown =>
            /\ scan.error.code = "MISSING_BINDINGS"
            /\ scan.error.worker = scan.name
            /\ named = absent
            /\ Cardinality(named) = Len(scan.error.keys)

\* The same for bundles that read env only in the form env.KEY
C20_PlainAccessCoverage ==
  (scan.pc = "done"
     /\ \A i \in 1..Len(scan.code) :
          scan.code[i].reads # "" /\ SubSeq(scan.code[i].tokens, 1, 3) = <<"env", ".", scan.code[i].reads>>)
  => LET absent == ReferencedKeys(scan.code) \ scan.configured
         named == {scan.error.keys[i] : i \in 1..Len(scan.error.keys)}
     IN /\ scan.error.thrown <=> absent # {}
        /\ scan.error.thrown =>
             /\ scan.error.code = "MISSING_BINDINGS"
             /\ scan.error.worker = scan.name
             /\ named = absent
             /\ Cardinality(named) = Len(scan.error.keys)

(***************************************************************************)
(* Binding resolver and emulator configuration.                            *)
(***************************************************************************)
CollectionNames ==
  {"textBindings", "kvNamespaces", "r2Buckets", "d1Databases", "queueProducers",
   "durableObjects", "serviceBindingTargets", "hyperdrives"}

\* The collections a key has landed in
LandedIn(collections, k) == {c \in CollectionNames : k \in DOMAIN collections[c]}

\* The declaration an instance was configured from
DeclOf(inst) == conf.selected[FindWorker(conf.selected, inst.name)]

\* The collection that goes with a reference's type tag, "" if there is none
MatchingCollection(type) ==
  CASE type = "kv" -> "kvNamespaces"
    [] type = "bucket" -> "r2Buckets"
    [] type = "d1" -> "d1Databases"
    [] type = "queue" -> "queueProducers"
    [] type = "durable_object" -> "durableObjects"
    [] type = "worker" -> "serviceBindingTargets"
    [] type = "hyperdrive" -> "hyperdrives"
    [] OTHER -> ""

\* C21: in the collections computed for a worker's binding map, a string
\* is a text binding and nothing else; a value with type and _ref lands
\* only in the collection of its type tag (nowhere if the tag has none);
\* a value with type and no _ref is taken as a manual descriptor: plain_text
\* and secret_text as text, json stringified as text, service as a service
\* target, anything else omitted; no key is in two collections; values of
\* any other shape are omitted; and nothing of this raises an error.
C21_BindingClassification ==
  \A i \in 1..Len(conf.instances) :
    LET b == DeclOf(conf.instances[i]).bindings
        col == conf.instances[i].collections
    IN /\ ~conf.error.thrown
       /\ \A k \in DOMAIN b :
            LET v == b[k]
                in == LandedIn(col, k)
            IN /\ Cardinality(in) <= 1
               /\ v.js = "string" => (in = {"textBindings"} /\ col.textBindings[k] = v.value)
               /\ (v.js = "object" /\ v.type # "" /\ v.hasRef) =>
                    /\ in \subseteq {MatchingCollection(v.type)}
                    /\ (in = {}) => (v.type = "hyperdrive" \/ MatchingCollection(v.type) = "")
               /\ (v.js = "object" /\ v.type # "" /\ ~v.hasRef) =>
                    /\ v.type \in {"plain_text", "secret_text"} =>
                         (in = {"textBindings"} /\ col.textBindings[k] = v.value)
                    /\ v.type = "json" =>
                         (in = {"textBindings"} /\ col.textBindings[k] = "\"" \o v.value \o "\"")
                    /\ (v.type = "service" /\ v.service # "") =>
                         (in = {"serviceBindingTargets"} /\ col.serviceBindingTargets[k] = v.service)
                    /\ (v.type \notin {"plain_text", "secret_text", "json", "service"}) => in = {}
               /\ (v.js # "string" /\ (v.js # "object" \/ v.type = "")) => in = {}

\* a started worker binds a manual service descriptor, a reference, a json
\* descriptor ... : one witness state per shape would do; this one has a
\* manual service next to a reference without a collection
C21_Witness ==
  /\ conf.pc = "done" /\ Len(conf.instances) = 2
  /\ conf.workers[2].bindings["CACHE"] = Linkable("vectorize", "emb", "")
  /\ conf.workers[2].bindings["SVC"] = ManualService("a")
  /\ "SVC" \in DOMAIN conf.instances[2].collections.serviceBindingTargets

\* A configuration declaring one worker whose CACHE is a KV reference, started
OneWorkerCacheKv ==
  /\ conf.pc = "done" /\ Len(conf.workers) = 1
  /\ conf.filter \in {NoWorker, conf.workers[1].name}
  /\ LET v == conf.workers[1].bindings["CACHE"]
     IN v.js = "object" /\ v.type = "kv" /\ v.hasRef

\* C22 as stated: one instance, whose kvNamespaces maps CACHE to kv-<n>,
\* which is the namespaceId the reference carries.
C22_CacheKvIdentifier ==
  OneWorkerCacheKv =>
    LET v == conf.workers[1].bindings["CACHE"]
    IN /\ Len(conf.instances) = 1
       /\ "CACHE" \in DOMAIN conf.instances[1].config.kvNamespaces
       /\ conf.instances[1].config.kvNamespaces["CACHE"] = "kv-" \o v.name
       /\ conf.instances[1].config.kvNamespaces["CACHE"] = v.value

\* C22: for a configuration declaring one worker whose CACHE is a KV
\* reference named n, startup yields one instance whose kvNamespaces maps
\* CACHE to kv-<n>; for a reference returned by KV(n) that is the
\* namespaceId the reference carries.
C22_CacheKvIdentifierManaged ==
  OneWorkerCacheKv =>
    LET v == conf.workers[1].bindings["CACHE"]
    IN /\ Len(conf.instances) = 1
       /\ "CACHE" \in DOMAIN conf.instances[1].config.kvNamespaces
       /\ conf.instances[1].config.kvNamespaces["CACHE"] = "kv-" \o v.name
       /\ v = KVOutput(v.name) => conf.instances[1].config.kvNamespaces["CACHE"] = v.value

C22_Witness ==
  /\ OneWorkerCacheKv
  /\ conf.workers[1].bindings["CACHE"] = KVOutput("cache")
  /\ conf.instances[1].config.kvNamespaces["CACHE"] = "kv-cache"

\* The elements of a sequence
Range(seq) == {seq[i] : i \in 1..Len(seq)}

\* C23: for every cron trigger declared against the reference Worker(W)
\* returned, the configuration of W's instance lists the schedule in its
\* crons, and no other worker's configuration does.
C23_CronsAttached ==
  \A i \in 1..Len(conf.instances), j \in 1..Len(conf.crons) :
    LET inst == conf.instances[i]
        cron == conf.crons[j].options
    IN IF cron.worker = WorkerOutput(inst.name)
         THEN cron.schedule \in Range(inst.config.crons)
         ELSE (\A c \in 1..Len(conf.crons) :
                 (conf.crons[c].options.schedule = cron.schedule)
                   => conf.crons[c].options.worker # WorkerOutput(inst.name))
              => cron.schedule \notin Range(inst.config.crons)

\* A service target without an entry in the port map
Dangling(v) ==
  \/ (v.js = "object" /\ v.type = "worker" /\ v.hasRef
        /\ v.scriptName \notin DOMAIN conf.portMap)
  \/ (v.js = "object" /\ v.type = "service" /\ ~v.hasRef /\ v.service # ""
        /\ v.service \notin DOMAIN conf.portMap)

\* The binding map without one of its keys
Without(b, k) == [x \in DOMAIN b \ {k} |-> b[x]]

\* C24: a service binding whose target has no entry in the port map gets
\* no dispatch function and raises no error, and the worker's configuration
\* is the one it would have if that binding were not in the map.
C24_DanglingServiceBinding ==
  \A i \in 1..Len(conf.instances) :
    LET inst == conf.instances[i]
        w == DeclOf(inst)
    IN \A k \in DOMAIN w.bindings :
         Dangling(w.bindings[k]) =>
           /\ ~conf.error.thrown
           /\ k \notin DOMAIN inst.config.serviceBindings
           /\ inst.config = workerConfig([w EXCEPT !.bindings = Without(w.bindings, k)],
                                         inst.port, buildCronsByWorker(conf.crons),
                                         conf.portMap)

\* worker b started alone (a filtered out) with SVC -> "a" and a KV next to it
C24_Witness ==
  /\ conf.pc = "done" /\ conf.filter = "b" /\ Len(conf.workers) = 2
  /\ Len(conf.instances) = 1
  /\ conf.workers[2].bindings["SVC"] = ManualService("a")
  /\ conf.workers[2].bindings["CACHE"] = KVOutput("cache")
  /\ "CACHE" \in DOMAIN conf.instances[1].config.kvNamespaces

\* C25: a Hyperdrive binding without a local connection string is in no
\* collection, a warning is given for it, and the instance is created all
\* the same; one with a local connection string is in hyperdrives with
\* exactly that connection string.
C25_HyperdriveBinding ==
  /\ \A i \in 1..Len(conf.instances) :
       LET inst == conf.instances[i]
           b == DeclOf(inst).bindings
       IN \A k \in DOMAIN b :
            (b[k].js = "object" /\ b[k].type = "hyperdrive" /\ b[k].hasRef) =>
              IF b[k].value = ""
                THEN /\ LandedIn(inst.collections, k) = {}
                     /\ k \notin DOMAIN inst.config.hyperdrives
                     /\ k \in inst.warnings
                ELSE /\ LandedIn(inst.collections, k) = {"hyperdrives"}
                     /\ inst.config.hyperdrives[k] = [connectionString |-> b[k].value]
                     /\ k \notin inst.warnings
  /\ (conf.pc = "done" /\ Len(conf.selected) > 0) =>
       (~conf.error.thrown /\ Len(conf.instances) = Len(conf.selected))

C25_Witness ==
  /\ conf.pc = "done" /\ Len(conf.instances) = 1
  /\ conf.workers[1].bindings["CACHE"] = Linkable("hyperdrive", "pg", "")
  /\ "CACHE" \in conf.instances[1].warnings

(***************************************************************************)
(* Declaration functions and loadConfig, continued.                        *)
(***************************************************************************)
\* A reference as a value of a binding map
AsBinding(r) ==
  [js |-> "object", type |-> r.type, hasRef |-> TRUE, name |-> r.name,
   scriptName |-> IF r.type = "worker" THEN r.id ELSE "",
   service |-> "",
   value |-> IF r.type = "hyperdrive" THEN r.conn ELSE r.id]

\* The collections the resolver puts a reference in
RoutedTo(r) == LandedIn(processBindings([k \in {"KEY"} |-> AsBinding(r)]), "KEY")

\* What X(name, options) returns for the ways X can be called
ManagedReferences(kind, name, app) ==
  {Reference(kind, name, options, app) : options \in {"", "postgres://localhost:5432/db"}}

\* the last declaration call was an X.existing
ExistingCalled == loader.last.made /\ loader.last.kind \in ExistingKinds

\* C26: an X.existing call validates the name, leaves every registry
\* sequence as it was, and returns a reference with the type tag of X(...)
\* and existing: true, which the binding resolver routes to the collection
\* it routes a reference returned by X(...) to.
C26_ExistingVariants ==
  ExistingCalled =>
    /\ ~ResourceNameSchema(loader.last.name).success => loader.last.error.thrown
    /\ Sequences(loader.reg) = Sequences(loader.last.before)
    /\ ~loader.last.error.thrown =>
         LET r == loader.refs[Len(loader.refs)]
         IN /\ r.type = TypeTag(ManagedKind(loader.last.kind))
            /\ r.existing
            /\ \A m \in ManagedReferences(ManagedKind(loader.last.kind), loader.last.name,
                                          loader.reg.app) :
                 RoutedTo(r) = RoutedTo(m)

\* The same without the Hyperdrive variant
C26_ExistingVariantsButHyperdrive ==
  (ExistingCalled /\ loader.last.kind # "Hyperdrive.existing") =>
    /\ ~ResourceNameSchema(loader.last.name).success => loader.last.error.thrown
    /\ Sequences(loader.reg) = Sequences(loader.last.before)
    /\ ~loader.last.error.thrown =>
         LET r == loader.refs[Len(loader.refs)]
         IN /\ r.type = TypeTag(ManagedKind(loader.last.kind))
            /\ r.existing
            /\ \A m \in ManagedReferences(ManagedKind(loader.last.kind), loader.last.name,
                                          loader.reg.app) :
                 RoutedTo(r) = RoutedTo(m)

\* loadConfig has returned the registry
Returned == loader.pc = "done" /\ ~loader.error.thrown /\ loader.module.shape = "ok"

\* C27: when loadConfig returns, run(ctx) has completed: every declaration
\* run makes, those after an await included, is in the registry, and
\* outputs is the value run returned, not a promise.
C27_ReturnsAfterRun ==
  Returned =>
    /\ loader.reg.outputs # <<Promise>>
    /\ loader.reg.outputs = Evaluation(loader.module, loader.stage).outputs
    /\ \A i \in 1..Len(loader.module.decls) :
         LET c == loader.module.decls[i]
         IN c.kind \in Kinds =>
              \E j \in 1..Len(loader.reg[RegField(c.kind)]) :
                 loader.reg[RegField(c.kind)][j].name = c.name

\* The same for configurations whose run is a plain function
C27_ReturnsAfterPlainRun ==
  (Returned /\ ~loader.module.async) =>
    /\ loader.reg.outputs # <<Promise>>
    /\ loader.reg.outputs = Evaluation(loader.module, loader.stage).outputs
    /\ \A i \in 1..Len(loader.module.decls) :
         LET c == loader.module.decls[i]
         IN c.kind \in Kinds =>
              \E j \in 1..Len(loader.reg[RegField(c.kind)]) :
                 loader.reg[RegField(c.kind)][j].name = c.name

UnusableShapes == {"missing", "no-default", "not-object", "no-wrapper"}

C29_RuntimeContext ==
  loader.ctx.made =>
    /\ loader.ctx.isProduction <=> (loader.ctx.stage = "production")
    /\ loader.ctx.isDev <=> ~loader.ctx.isProduction

\* isDev is the negation of isProduction
C29_IsDevNegation ==
  loader.ctx.made => (loader.ctx.isDev <=> ~loader.ctx.isProduction)

RebuildCompleted ==
  /\ main.pc = "serving" /\ ~isShuttingDown
  /\ hist.rb.phase = "ok" /\ ~isRebuilding

\* C31: after any successfully completed rebuild (hot or structural), with
\* no rebuild in flight, the names of the live instances are exactly the
\* names of the workers of the most recently loaded (filtered) registry.
C31_LiveNamesMatchRegistry ==
  RebuildCompleted => InstanceNames(Live) = NamesOf(Filtered)

\* The same statement for rebuilds started by the configuration watcher.
C31_LiveNamesMatchAfterConfigRebuild ==
  (RebuildCompleted /\ hist.rb.kind = "cfg") => InstanceNames(Live) = NamesOf(Filtered)


\* The instances dev() created in its startup loop: handle h was made in
\* round h of the loop, for main.workers[h]
StartupHandles == {h \in 1..Len(mf) : mf[h].startedBy = "startup"}

\* The port map holds every selected worker when a configuration exists
PortMapComplete == DOMAIN workerPortMap = NamesOf(main.workers)

\* C32: at startup the (filtered) workers get the ports basePort,
\* basePort + 1, ... in declaration order, and the port map holds every
\* worker before the emulator configuration of any worker is constructed.
C32_SequentialPortsBeforeConfigs ==
  \A h \in StartupHandles :
    /\ PortMapComplete
    /\ mf[h].name = main.workers[h].name
    /\ mf[h].port = basePort + h - 1
    /\ mf[h].cfg.port = basePort + h - 1

\* What holds for every configuration: the port map is complete before the
\* first configuration is constructed, every instance listens on the port
\* the map holds for its name, and the ports are sequential in declaration
\* order when no worker name is declared twice.
C32_PortMapBeforeConfigs ==
  \A h \in StartupHandles :
    /\ PortMapComplete
    /\ mf[h].name = main.workers[h].name
    /\ mf[h].port = workerPortMap[mf[h].name]
    /\ mf[h].cfg.port = mf[h].port
    /\ Cardinality(NamesOf(main.workers)) = Len(main.workers) => mf[h].port = basePort + h - 1


\* Every selected worker has an instance made by the startup loop, and
\* every one of them has signalled readiness
AllStartedReady ==
  /\ Cardinality(StartupHandles) = Len(main.workers)
  /\ \A h \in StartupHandles : mf[h].status = "ready"

\* A step in which dev() publishes the live list, creates a watcher or
\* reaches the point where it reports the instances as served
Publishes ==
  \/ main.pc # "serving" /\ main'.pc = "serving"
  \/ main.pc = "start" /\ globalInstances' # globalInstances
  \/ ~globalWatcher /\ globalWatcher'
  \/ ~globalConfigWatcher /\ globalConfigWatcher'

\* C33: dev() reports the instances as served, publishes the live-instance
\* list and creates both watchers only after every instance it started has
\* signalled readiness; before that the live list is empty, no change event
\* is delivered and no rebuild is in flight.
C33_ServingAfterAllReady ==
  [][/\ Publishes => /\ AllStartedReady'
                     /\ main'.pc = "serving" /\ globalWatcher' /\ globalConfigWatcher'
                     /\ Len(heap'[globalInstances']) = Len(main'.workers)
     /\ main'.pc # "serving" =>
          /\ Len(heap'[globalInstances']) = 0
          /\ ~globalWatcher' /\ ~globalConfigWatcher'
          /\ ~srcEvent' /\ ~cfgEvent'
          /\ ~isRebuilding' /\ rb'.pc = "idle"]_vars

C33_Witness ==
  /\ StartupOnly /\ globalWatcher /\ globalConfigWatcher
  /\ Len(Live) = 3 /\ AllStartedReady
  /\ edits > 0 /\ ~srcEvent /\ ~cfgEvent


ConfigPath == <<"lumier", ".", "config", ".", "ts">>

\* The watched paths under a dependency directory or the local state
\* directory, the environment file, the declaration file and the
\* configuration file
ExcludedPaths ==
  { ConfigPath,
    <<"node_modules", "/", "zod", "/", "index", ".", "ts">>,
    <<".", "lumier", "/", "build", "/", "a", ".", "ts">>,
    <<".", "env">>,
    <<"src", "/", "types", ".", "d", ".", "ts">> }

SourcePaths == {<<"src", "/", "a", ".", "ts">>, <<"src", "/", "b", ".", "tsx">>}

\* C34: a change of the configuration file never reaches handleRebuild: the
\* source watcher never waits for, and never reports, a path under a
\* dependency directory or the local state directory, an environment file,
\* a .d.ts file or lumier.config.*, and of the paths it reports only those
\* ending in .ts or .tsx are handed to handleRebuild.
C34_ConfigChangeNotHot ==
  /\ ConfigPath \notin watch.handled
  /\ watch.handled \subseteq SourcePaths
  /\ \A p \in ExcludedPaths : watch.timer[p] = 0

C34_Witness ==
  /\ ExcludedPaths \cap watch.saved = {ConfigPath, <<".", "env">>}
  /\ watch.handled = {<<"src", "/", "a", ".", "ts">>}
  /\ watch.isRebuilding


\* The references Worker(...) returned in this load, with the registry's
\* workers they were returned for
WorkerRefs == {i \in 1..Len(loader.refs) : loader.refs[i].type = "worker"}

C36_DistinctPorts ==
  \A i, j \in 1..Len(Live) :
    i # j => /\ mf[Live[i]].port # mf[Live[j]].port
             /\ mf[Live[i]].cfg.port # mf[Live[j]].cfg.port

\* The same statement for live lists in which no name occurs twice.
C36_DistinctPortsDistinctNames ==
  \A i, j \in 1..Len(Live) :
    (i # j /\ mf[Live[i]].name # mf[Live[j]].name)
    => /\ mf[Live[i]].port # mf[Live[j]].port
       /\ mf[Live[i]].cfg.port # mf[Live[j]].cfg.port


\* C37: every port the allocation assigns lies in the range 1024..65535
\* that port validation accepts, for every valid base port and every
\* number of workers.
C37_PortsInRange ==
  \A n \in DOMAIN ports.portMap : PortSchema(ports.portMap[n])

\* What port validation gives: the base port is in range, and the ports
\* assigned are basePort .. basePort + (number of workers) - 1.
C37_BasePortInRange ==
  /\ ports.thrown => ports.portMap = << >>
  /\ (ports.pc # "idle" /\ ~ports.thrown) =>
       /\ ports.basePort >= MIN_PORT /\ ports.basePort <= MAX_PORT
       /\ \A n \in DOMAIN ports.portMap :
            /\ ports.portMap[n] >= ports.basePort
            /\ ports.portMap[n] <= ports.basePort + Len(ports.workers) - 1


\* C38: the reentrancy guard is always released: every rebuild, hot or
\* structural, whether it succeeds or fails at load, type generation,
\* build, dispose, instance start or in-place reconfiguration, is followed
\* by a state in which isRebuilding is false and no rebuild is in flight.
C38_GuardReleased ==
  isRebuilding ~> (~isRebuilding /\ rb.pc = "idle")

C38_Witness ==
  /\ hist.rb.phase = "failed" /\ hist.rb.failedAt = "start"
  /\ ~isRebuilding /\ rb.pc = "idle"
  /\ \E h \in 1..Len(mf) : mf[h].status = "failed"


\* C39: if the (filtered) worker list is empty at dev startup, dev fails
\* with NO_WORKERS before a port is assigned and before an instance is
\* started, and the instance list stays empty; with a worker selected it
\* does not fail so.
C39_NoWorkersFailsEarly ==
  conf.starts > 0 =>
    /\ Len(conf.selected) = 0 =>
         /\ conf.pc = "done"
         /\ conf.error.thrown /\ conf.error.code = "NO_WORKERS"
         /\ conf.portMap = << >>
         /\ conf.instances = << >>
    /\ Len(conf.selected) > 0 => ~conf.error.thrown

C39_Witness ==
  /\ conf.pc = "done" /\ conf.error.code = "NO_WORKERS"
  /\ Len(conf.workers) = 1 /\ conf.filter = "a"
  /\ conf.portMap = << >> /\ conf.instances = << >>

====
